---- MODULE Spec2Model ----
(***************************************************************************)
(* The tool-mounting runtime of clai: discovery of TOOL.yaml spec files,   *)
(* parsing, validation, duplicate-name resolution, the four mount          *)
(* adapters, registration with the host server and the runner catalog,     *)
(* and the nested-call dispatcher used at call time.                       *)
(***************************************************************************)
EXTENDS Integers, Sequences, FiniteSets, TLC

VARIABLES
    tree,                    \* the tools directory: spec path -> file on disk
    pc,                      \* position of the startup code
    paths,                   \* result of iter_tool_spec_paths
    specs,                   \* result of iter_tool_specs: (path, raw record) pairs
    idx,                     \* index of the loop in progress
    published_name_to_path,  \* local map of register_discovered_tools
    tool_runner_registry,    \* state["tool_runner_registry"]: name -> runner
    host,                    \* tools registered with the host server: name -> handler
    log,                     \* lines passed to log(), in order
    calls,                   \* caller -> stack of runner frames in progress
    lastEvent,               \* what the most recent call-time step did
    entries,                 \* what a tools directory holds, for iter_tool_spec_paths alone
    templates_flag,          \* the flag iter_tool_spec_paths was last called with
    raw_record,              \* a raw record handed to validate_tool_spec
    verdict,                 \* what validate_tool_spec returned for raw_record
    published,               \* what tool_published_name returned for the descriptor
    run,                     \* the most recent invocation of a runner, start to end
    ncalls,                  \* number of runner invocations so far
    pycache                  \* __pycache__ next to a script: spec path -> cached bytecode

\* Variables used only when one function or one runner is exercised on its own
unitVars == <<entries, templates_flag, raw_record, verdict, published, run, ncalls, pycache>>

vars == <<tree, pc, paths, specs, idx, published_name_to_path,
          tool_runner_registry, host, log, calls, lastEvent, unitVars>>

(***************************************************************************)
(* Bounds                                                                  *)
(***************************************************************************)
MaxFiles == 2
MaxFrames == 2
MaxCalls == 2

(***************************************************************************)
(* Python values and strings.  A string is a sequence of one-character     *)
(* strings; a YAML value is tagged with its type and carries its str().    *)
(***************************************************************************)
None == [t |-> "none", s |-> <<>>]
StrV(chars) == [t |-> "str", s |-> chars]
IntV(chars) == [t |-> "int", s |-> chars]

\* Python truthiness of a value, as used by `x or ""`.
Truthy(v) ==
    CASE v.t = "none" -> FALSE
      [] v.t = "str"  -> v.s # <<>>
      [] v.t = "int"  -> v.s # <<"0">>

\* str(v or "")
StrOr(v) == IF Truthy(v) THEN v.s ELSE <<>>

IsSpace(c) == c \in {" ", "\n", "\t"}

RECURSIVE LStrip(_)
LStrip(s) == IF s # <<>> /\ IsSpace(Head(s)) THEN LStrip(Tail(s)) ELSE s

RECURSIVE RStrip(_)
RStrip(s) ==
    IF s # <<>> /\ IsSpace(s[Len(s)]) THEN RStrip(SubSeq(s, 1, Len(s) - 1)) ELSE s

\* str.strip()
Strip(s) == RStrip(LStrip(s))

LowerChar(c) ==
    CASE c = "C" -> "c"
      [] c = "L" -> "l"
      [] c = "I" -> "i"
      [] OTHER   -> c

\* str.lower()
Lower(s) == [i \in 1..Len(s) |-> LowerChar(s[i])]

\* dict.get(key): None when the key is absent
Get(d, k) == IF k \in DOMAIN d THEN d[k] ELSE None

EmptyDict == [k \in {} |-> None]

(***************************************************************************)
(* Paths: sequences of segments, ordered as pathlib orders them (segment   *)
(* by segment, each segment by code point).                                *)
(***************************************************************************)
SegRank ==
    [s \in {"TOOL.yaml", "TOOL.yml", "a", "b", "c", "d", "templates"} |->
        CASE s = "TOOL.yaml" -> 1
          [] s = "TOOL.yml"  -> 2
          [] s = "a"         -> 3
          [] s = "b"         -> 4
          [] s = "c"         -> 5
          [] s = "d"         -> 6
          [] s = "templates" -> 7]

RECURSIVE PathLess(_, _)
PathLess(p, q) ==
    IF q = <<>> THEN FALSE
    ELSE IF p = <<>> THEN TRUE
    ELSE IF Head(p) = Head(q) THEN PathLess(Tail(p), Tail(q))
    ELSE SegRank[Head(p)] < SegRank[Head(q)]

\* Mutant of SortedPaths: sorts descending
RECURSIVE SortedPathsDescending(_)
SortedPathsDescending(S) ==
    IF S = {} THEN <<>>
    ELSE LET m == CHOOSE p \in S : \A q \in S \ {p} : PathLess(q, p)
         IN <<m>> \o SortedPathsDescending(S \ {m})

\* sorted(set): the ascending sequence of a set of paths
RECURSIVE SortedPaths(_)
SortedPaths(S) ==
    IF S = {} THEN <<>>
    ELSE LET m == CHOOSE p \in S : \A q \in S \ {p} : PathLess(p, q)
         IN <<m>> \o SortedPaths(S \ {m})

SeqToSet(s) == {s[i] : i \in 1..Len(s)}

\* Mutant of SelectPaths: only a leading `templates` segment excludes a path
RECURSIVE SelectPathsByFirstSegment(_, _)
SelectPathsByFirstSegment(s, keepTemplates) ==
    IF s = <<>> THEN <<>>
    ELSE IF keepTemplates \/ Head(Head(s)) # "templates"
         THEN <<Head(s)>> \o SelectPathsByFirstSegment(Tail(s), keepTemplates)
         ELSE SelectPathsByFirstSegment(Tail(s), keepTemplates)

\* [path for path in resolved_paths if "templates" not in path.parts]
RECURSIVE SelectPaths(_, _)
SelectPaths(s, keepTemplates) ==
    IF s = <<>> THEN <<>>
    ELSE IF keepTemplates \/ "templates" \notin SeqToSet(Head(s))
         THEN <<Head(s)>> \o SelectPaths(Tail(s), keepTemplates)
         ELSE SelectPaths(Tail(s), keepTemplates)

\* iter_tool_spec_paths(tools_dir, include_templates) on what rglob enumerated
iter_tool_spec_paths(enumerated, include_templates) ==
    SelectPaths(SortedPaths(SeqToSet(enumerated)), include_templates)

\* All orders in which the filesystem may enumerate a set of files
Enumerations(S) ==
    {e \in [1..Cardinality(S) -> S] : SeqToSet(e) = S}

\* A directory entry: where it sits under the root and the path it resolves to (its
\* own path unless it is a symbolic link)
Entry(path, real) == [path |-> path, real |-> real]

\* Entries a tools directory may hold: spec files of both names, one at the root,
\* some under templates/, links to other entries, and files of other names
EntryPool ==
    { Entry(<<"TOOL.yml">>, <<"TOOL.yml">>),
      Entry(<<"a", "TOOL.yaml">>, <<"a", "TOOL.yaml">>),
      Entry(<<"a", "TOOL.yml">>, <<"a", "TOOL.yml">>),
      Entry(<<"b", "TOOL.yml">>, <<"b", "TOOL.yml">>),
      Entry(<<"c", "TOOL.yaml">>, <<"a", "TOOL.yaml">>),
      Entry(<<"templates", "a", "TOOL.yaml">>, <<"templates", "a", "TOOL.yaml">>),
      Entry(<<"b", "templates", "TOOL.yml">>, <<"b", "templates", "TOOL.yml">>),
      Entry(<<"templates", "b", "TOOL.yaml">>, <<"d", "TOOL.yaml">>),
      Entry(<<"a", "c">>, <<"a", "c">>),
      Entry(<<"templates", "d">>, <<"templates", "d">>) }

\* tools_dir.rglob(pattern): the entries of that name, at any depth
rglob(dir, pattern) == {e \in dir : e.path[Len(e.path)] = pattern}

\* path.resolve()
resolve(e) == e.real

(***************************************************************************)
(* The tools directory.  A spec file is unreadable, blank, not YAML, YAML  *)
(* that is no mapping, or a mapping; `src` is what the path named by its   *)
(* `source` field is on disk, `text` that file's content and `stamp` its    *)
(* modification second and size.                                           *)
(***************************************************************************)
File(kind, rec, src) ==
    [kind |-> kind, rec |-> rec, src |-> src,
     text |-> IF src = "file" THEN <<"v1">> ELSE <<>>, stamp |-> "s0"]

T_cli == <<"c", "l", "i">>
T_python == <<"p", "y", "t", "h", "o", "n">>
T_markdown == <<"m", "a", "r", "k", "d", "o", "w", "n">>
T_prompt == <<"p", "r", "o", "m", "p", "t">>

FileContents ==
    { File("unreadable", EmptyDict, "none"),
      File("blank", EmptyDict, "none"),
      File("badyaml", EmptyDict, "none"),
      File("nonobject", EmptyDict, "none"),
      File("object", EmptyDict, "none"),
      File("object", [type |-> StrV(T_cli)], "none"),
      File("object", [name |-> StrV(<<"a">>)], "none"),
      File("object", [name |-> StrV(<<"b">>), type |-> StrV(<<"d">>)], "none"),
      File("object", [name |-> StrV(<<" ", "a">>), type |-> StrV(<<" ", "C", "L", "I">>),
                      command |-> StrV(<<"c">>)], "none"),
      File("object", [name |-> StrV(<<"a">>), type |-> StrV(T_cli)], "none"),
      File("object", [name |-> StrV(<<"b">>), type |-> StrV(T_cli),
                      mcp_name |-> StrV(<<"a">>), command |-> StrV(<<"c">>)], "none"),
      File("object", [name |-> StrV(<<"a">>), type |-> StrV(T_cli),
                      mcp_name |-> StrV(<<" ">>), command |-> StrV(<<"c">>)], "none"),
      File("object", [name |-> StrV(<<"b">>), type |-> StrV(T_cli),
                      mcp_name |-> StrV(<<" ">>), command |-> StrV(<<"c">>)], "none"),
      File("object", [name |-> StrV(<<"a">>), type |-> StrV(T_prompt),
                      source |-> StrV(<<"c">>)], "none"),
      File("object", [name |-> StrV(<<"b">>), type |-> StrV(T_prompt),
                      source |-> StrV(<<" ">>)], "none"),
      File("object", [name |-> StrV(<<"b">>), type |-> StrV(T_markdown),
                      source |-> StrV(<<"c">>)], "file"),
      File("object", [name |-> StrV(<<"b">>), type |-> StrV(T_markdown),
                      source |-> StrV(<<"c">>)], "missing"),
      File("object", [name |-> StrV(<<"b">>), type |-> StrV(T_markdown),
                      source |-> StrV(<<"c">>)], "dir"),
      File("object", [name |-> StrV(<<"a">>), type |-> StrV(T_python),
                      source |-> StrV(<<"c">>)], "file"),
      File("object", [name |-> StrV(<<"b">>), type |-> StrV(T_python),
                      source |-> StrV(<<"c">>)], "file"),
      File("object", [name |-> StrV(<<"b">>), type |-> StrV(T_python),
                      source |-> IntV(<<"5">>)], "none") }

\* Spec files outside any templates directory, in no particular order
SpecPathList ==
    << <<"a", "TOOL.yaml">>, <<"b", "TOOL.yml">>, <<"c", "TOOL.yaml">>, <<"d", "TOOL.yml">> >>

TemplatePath == <<"templates", "a", "TOOL.yaml">>
TemplateFile == File("object", [name |-> StrV(<<"c">>), type |-> StrV(T_prompt),
                                source |-> StrV(<<"c">>)], "none")

\* Every tree of at most MaxFiles spec files; a file under templates/ counts
Trees ==
    UNION { { f @@ [p \in T |-> TemplateFile] :
                f \in [ {SpecPathList[i] : i \in 1..n} -> FileContents ] }
            : <<n, T>> \in { x \in (0..MaxFiles) \X {{}, {TemplatePath}} :
                                x[1] + Cardinality(x[2]) <= MaxFiles } }

\* The files of the trees that calls are made against: tools of every type, one
\* name published twice, and one spec that is skipped
CallFiles ==
    { File("object", [name |-> StrV(<<"a">>), type |-> StrV(T_python),
                      source |-> StrV(<<"c">>)], "file"),
      File("object", [name |-> StrV(<<"b">>), type |-> StrV(T_python),
                      source |-> StrV(<<"c">>)], "file"),
      File("object", [name |-> StrV(<<" ", "a">>), type |-> StrV(<<" ", "C", "L", "I">>),
                      command |-> StrV(<<"c">>)], "none"),
      File("object", [name |-> StrV(<<"a">>), type |-> StrV(T_prompt),
                      source |-> StrV(<<"c">>)], "none"),
      File("object", [name |-> StrV(<<"b">>), type |-> StrV(T_markdown),
                      source |-> StrV(<<"c">>)], "file"),
      File("object", [name |-> StrV(<<"b">>), type |-> StrV(T_markdown),
                      source |-> StrV(<<"c">>)], "missing") }

CallTrees ==
    UNION { [ {SpecPathList[i] : i \in 1..n} -> CallFiles ] : n \in 0..MaxFiles }

(***************************************************************************)
(* Log lines.  Every line of the mounting code starts with "[mcp-server]". *)
(***************************************************************************)
Line(tag, name, path, other) ==
    [prefix |-> "[mcp-server]", tag |-> tag, name |-> name, path |-> path, other |-> other]

(***************************************************************************)
(* tool_specs.py                                                           *)
(***************************************************************************)
\* parse_tool_yaml(tool_path, log): the yaml module is taken to be importable.
parse_tool_yaml(file, tool_path) ==
    CASE file.kind = "unreadable" ->       \* read_text raises, outside any try
            [out |-> "raise", rec |-> EmptyDict, logs |-> <<>>]
      [] file.kind = "blank" ->
            [out |-> "none", rec |-> EmptyDict, logs |-> <<>>]
      [] file.kind = "badyaml" ->
            [out |-> "none", rec |-> EmptyDict,
             logs |-> <<Line("tool spec parse failed", <<>>, tool_path, <<>>)>>]
      [] file.kind = "nonobject" ->
            [out |-> "none", rec |-> EmptyDict,
             logs |-> <<Line("tool spec parse failed", <<>>, tool_path, <<>>)>>]
      [] OTHER ->
            [out |-> "dict", rec |-> file.rec, logs |-> <<>>]

\* `if not spec: continue` of iter_tool_specs: None and the empty mapping are falsy
SpecIsFalsy(parsed) == parsed.out = "none" \/ DOMAIN parsed.rec = {}

(***************************************************************************)
(* registry.py                                                             *)
(***************************************************************************)
TOOL_TYPE_MOUNTS == {T_cli, T_python, T_markdown, T_prompt}

Put(d, k, v) == [x \in DOMAIN d \cup {k} |-> IF x = k THEN v ELSE d[x]]

\* What validate_tool_spec hands back, and `raw`, its argument as the call leaves it
Verdict(ok, spec, err, raw) == [ok |-> ok, spec |-> spec, err |-> err, raw |-> raw]

\* Mutant of validate_tool_spec: the type is looked at before the name
validate_tool_spec_type_first(raw_spec) ==
    LET name == Strip(StrOr(Get(raw_spec, "name")))
        tool_type == Lower(Strip(StrOr(Get(raw_spec, "type"))))
        spec == Put(Put(Put(raw_spec, "name", StrV(name)), "type", StrV(tool_type)),
                    "description", StrV(StrOr(Get(raw_spec, "description"))))
    IN  IF tool_type = <<>> THEN Verdict(FALSE, EmptyDict, "missing_type", raw_spec)
        ELSE IF name = <<>> THEN Verdict(FALSE, EmptyDict, "missing_name", raw_spec)
        ELSE IF tool_type \notin TOOL_TYPE_MOUNTS
             THEN Verdict(FALSE, EmptyDict, "unsupported_type", raw_spec)
        ELSE Verdict(TRUE, spec, "none", raw_spec)

\* Mutant of validate_tool_spec: normalises the record it was given, no copy
validate_tool_spec_in_place(raw_spec) ==
    LET name == Strip(StrOr(Get(raw_spec, "name")))
        tool_type == Lower(Strip(StrOr(Get(raw_spec, "type"))))
        spec == Put(Put(Put(raw_spec, "name", StrV(name)), "type", StrV(tool_type)),
                    "description", StrV(StrOr(Get(raw_spec, "description"))))
    IN  IF name = <<>> THEN Verdict(FALSE, EmptyDict, "missing_name", raw_spec)
        ELSE IF tool_type = <<>> THEN Verdict(FALSE, EmptyDict, "missing_type", raw_spec)
        ELSE IF tool_type \notin TOOL_TYPE_MOUNTS
             THEN Verdict(FALSE, EmptyDict, "unsupported_type", raw_spec)
        ELSE Verdict(TRUE, spec, "none", spec)

\* `spec = dict(raw_spec)` is a copy: the assignments go to it, not to raw_spec
validate_tool_spec(raw_spec) ==
    LET name == Strip(StrOr(Get(raw_spec, "name")))
        tool_type == Lower(Strip(StrOr(Get(raw_spec, "type"))))
        spec == Put(Put(Put(raw_spec, "name", StrV(name)), "type", StrV(tool_type)),
                    "description", StrV(StrOr(Get(raw_spec, "description"))))
    IN  IF name = <<>> THEN Verdict(FALSE, EmptyDict, "missing_name", raw_spec)
        ELSE IF tool_type = <<>> THEN Verdict(FALSE, EmptyDict, "missing_type", raw_spec)
        ELSE IF tool_type \notin TOOL_TYPE_MOUNTS
             THEN Verdict(FALSE, EmptyDict, "unsupported_type", raw_spec)
        ELSE Verdict(TRUE, spec, "none", raw_spec)

\* Mutant of tool_published_name: mcp_name overrides the name for every type
tool_published_name_any_type(spec) ==
    IF Strip(StrOr(Get(spec, "mcp_name"))) # <<>>
    THEN Strip(StrOr(Get(spec, "mcp_name")))
    ELSE Strip(StrOr(Get(spec, "name")))

tool_published_name(spec) ==
    IF Lower(Strip(StrOr(Get(spec, "type")))) = T_cli
          /\ Strip(StrOr(Get(spec, "mcp_name"))) # <<>>
    THEN Strip(StrOr(Get(spec, "mcp_name")))
    ELSE Strip(StrOr(Get(spec, "name")))

(***************************************************************************)
(* The mount adapters.  Each returns the mounted tool, or absent with the  *)
(* lines it logged, or raises.  A runner is the closure the adapter built: *)
(* its kind, the spec it came from and what it captured.                   *)
(***************************************************************************)
Runner(kind, path, cap) == [kind |-> kind, path |-> path, cap |-> cap]
NoRunner == Runner("none", <<>>, <<>>)
NoTool == [name |-> <<>>, description |-> <<>>, meta |-> "None", runner |-> NoRunner]

Absent(logs) == [out |-> "absent", logs |-> logs, tool |-> NoTool]
Raises == [out |-> "raise", logs |-> <<>>, tool |-> NoTool]
Mounted(name, description, meta, runner) ==
    [out |-> "tool", logs |-> <<>>,
     tool |-> [name |-> name, description |-> description, meta |-> meta, runner |-> runner]]

\* isinstance(source, str) and source.strip()
UsableSource(source) == source.t = "str" /\ Strip(source.s) # <<>>

build_cli_mount(tool, tool_path, file) ==
    LET tool_name == Strip(StrOr(Get(tool, "name")))
        command == Strip(StrOr(Get(tool, "command")))
        mcp_name ==
            Strip(IF Truthy(Get(tool, "mcp_name")) THEN Get(tool, "mcp_name").s
                  ELSE IF tool_name # <<>> THEN tool_name
                  ELSE <<"c", "l", "i", ".">> \o command)
        description ==
            IF Truthy(Get(tool, "description")) THEN Get(tool, "description").s
            ELSE <<"R", "u", "n", " ">> \o command
    IN  IF command = <<>>
        THEN Absent(<<Line("missing command for cli", tool_name, <<>>, <<>>)>>)
        ELSE Mounted(mcp_name, description, "tool_pre_prompt",
                     Runner("cli", tool_path, command))

\* `origin` names the spec whose mount created the closure (its identity)
build_text_prompt_mount(tool, prompt_text, origin, tool_kind) ==
    Mounted(Strip(StrOr(Get(tool, "name"))), StrOr(Get(tool, "description")),
            "prompt_tool_hint", Runner(tool_kind, origin, prompt_text))

build_prompt_mount(tool, tool_path, file) ==
    LET tool_name == Strip(StrOr(Get(tool, "name")))
        source == Get(tool, "source")
    IN  IF ~UsableSource(source)
        THEN Absent(<<Line("missing source for prompt", tool_name, <<>>, <<>>)>>)
        ELSE build_text_prompt_mount(tool, source.s, tool_path, "prompt")

\* tool_path.parent / source
SourcePath(tool_path, source) == SubSeq(tool_path, 1, Len(tool_path) - 1) \o source.s

build_markdown_mount(tool, tool_path, file) ==
    LET tool_name == Strip(StrOr(Get(tool, "name")))
        source == Get(tool, "source")
    IN  IF ~UsableSource(source)
        THEN Absent(<<Line("missing source for markdown", tool_name, <<>>, <<>>)>>)
        ELSE IF file.src = "missing"
        THEN Absent(<<Line("markdown source not found", tool_name, <<>>,
                           SourcePath(tool_path, source))>>)
        ELSE IF file.src = "dir"           \* exists() holds, read_text raises
        THEN Raises
        ELSE build_text_prompt_mount(tool, file.text, tool_path, "markdown")

\* Mutant of build_python_mount: the module is loaded at mount time to look for run()
build_python_mount_checking_run(tool, tool_path, file) ==
    LET tool_name == Strip(StrOr(Get(tool, "name")))
        source == Get(tool, "source")
    IN  IF ~UsableSource(source)
        THEN Absent(<<Line("missing source for python", tool_name, <<>>, <<>>)>>)
        ELSE IF file.src = "missing"
        THEN Absent(<<Line("python source not found", tool_name, <<>>,
                           SourcePath(tool_path, source))>>)
        ELSE IF file.text = <<"v3">>
        THEN Absent(<<Line("python source has no run()", tool_name, <<>>,
                           SourcePath(tool_path, source))>>)
        ELSE Mounted(tool_name, StrOr(Get(tool, "description")), "None",
                     Runner("python", tool_path, SourcePath(tool_path, source)))

build_python_mount(tool, tool_path, file) ==
    LET tool_name == Strip(StrOr(Get(tool, "name")))
        source == Get(tool, "source")
    IN  IF ~UsableSource(source)
        THEN Absent(<<Line("missing source for python", tool_name, <<>>, <<>>)>>)
        ELSE IF file.src = "missing"
        THEN Absent(<<Line("python source not found", tool_name, <<>>,
                           SourcePath(tool_path, source))>>)
        ELSE Mounted(tool_name, StrOr(Get(tool, "description")), "None",
                     Runner("python", tool_path, SourcePath(tool_path, source)))

\* mount = TOOL_TYPE_MOUNTS[tool_type]; mounted = mount(spec, tool_path, ...)
Mount(spec, tool_path, file) ==
    CASE spec["type"].s = T_cli      -> build_cli_mount(spec, tool_path, file)
      [] spec["type"].s = T_python   -> build_python_mount(spec, tool_path, file)
      [] spec["type"].s = T_markdown -> build_markdown_mount(spec, tool_path, file)
      [] spec["type"].s = T_prompt   -> build_prompt_mount(spec, tool_path, file)

(***************************************************************************)
(* Registration                                                            *)
(***************************************************************************)
RECURSIVE AfterLastDot(_)
AfterLastDot(s) ==
    IF \E i \in 1..Len(s) : s[i] = "."
    THEN AfterLastDot(Tail(s))
    ELSE s

AliasChars == {"a", "b", "c", "d", "i", "l", "x", "0", "5", "_", "-"}

RECURSIVE KeepAliasChars(_)
KeepAliasChars(s) ==
    IF s = <<>> THEN <<>>
    ELSE IF Head(s) \in AliasChars THEN <<Head(s)>> \o KeepAliasChars(Tail(s))
    ELSE KeepAliasChars(Tail(s))

_primary_tool_alias(tool_name) ==
    LET token == KeepAliasChars(Lower(AfterLastDot(tool_name)))
    IN  IF token = <<>> THEN <<"t", "o", "o", "l">> ELSE token

_with_tilde_routing_hint(tool_name, description) ==
    [base |-> Strip(description), hint |-> <<"~">> \o _primary_tool_alias(tool_name)]

\* Mutant of _register_mounted_tool: registers with the host, forgets the catalog
_register_mounted_tool_host_only(hst, registry, mounted) ==
    [host |-> Put(hst, mounted.name,
                  [description |-> _with_tilde_routing_hint(mounted.name, mounted.description),
                   meta |-> mounted.meta,
                   handler |-> mounted.runner]),
     registry |-> registry]

\* Mutant of _register_mounted_tool: fills the catalog, tells the host nothing
_register_mounted_tool_catalog_only(hst, registry, mounted) ==
    [host |-> hst,
     registry |-> Put(registry, mounted.name, mounted.runner)]

\* mcp.tool(name=..., description=..., meta=...)(_tool), then the catalog insert
_register_mounted_tool(hst, registry, mounted) ==
    [host |-> Put(hst, mounted.name,
                  [description |-> _with_tilde_routing_hint(mounted.name, mounted.description),
                   meta |-> mounted.meta,
                   handler |-> mounted.runner]),
     registry |-> Put(registry, mounted.name, mounted.runner)]

\* Mutant of MountedNameTaken: the runtime-name check is dropped
MountedNameNeverTaken(registry, mounted) == FALSE

\* `mounted["name"] in state["tool_runner_registry"]`
MountedNameTaken(registry, mounted) == mounted.name \in DOMAIN registry

NameOrMissing(raw_spec) ==
    IF Strip(StrOr(Get(raw_spec, "name"))) # <<>>
    THEN Strip(StrOr(Get(raw_spec, "name")))
    ELSE <<"(missing_name)">>

TypeOrMissing(raw_spec) ==
    IF Lower(Strip(StrOr(Get(raw_spec, "type")))) # <<>>
    THEN Lower(Strip(StrOr(Get(raw_spec, "type"))))
    ELSE <<"(missing_type)">>

Step(pnp, registry, hst, logs, raised) ==
    [pnp |-> pnp, registry |-> registry, host |-> hst, logs |-> logs, raised |-> raised]

\* Mutant of MountStep: the published name is claimed only once its tool is mounted
MountStepClaimOnSuccess(tool_path, raw_spec, file, pnp, registry, hst) ==
    LET v == validate_tool_spec(raw_spec)
        published_name == tool_published_name(v.spec)
        m == Mount(v.spec, tool_path, file)
        claimed == Put(pnp, published_name, tool_path)
        r == _register_mounted_tool(hst, registry, m.tool)
    IN  IF v.err = "missing_name"
        THEN Step(pnp, registry, hst,
                  <<Line("tool invalid (missing_name)", <<>>, tool_path, <<>>)>>, FALSE)
        ELSE IF v.err = "missing_type"
        THEN Step(pnp, registry, hst,
                  <<Line("tool invalid (missing_type)", NameOrMissing(raw_spec),
                         tool_path, <<>>)>>, FALSE)
        ELSE IF ~v.ok
        THEN Step(pnp, registry, hst,
                  <<Line("skipped: no mount for that tool type", NameOrMissing(raw_spec),
                         <<>>, TypeOrMissing(raw_spec))>>, FALSE)
        ELSE IF published_name \in DOMAIN pnp
        THEN Step(pnp, registry, hst,
                  <<Line("skipped: duplicate published name", published_name,
                         tool_path, pnp[published_name])>>, FALSE)
        ELSE IF m.out = "raise" THEN Step(pnp, registry, hst, <<>>, TRUE)
        ELSE IF m.out = "absent" THEN Step(pnp, registry, hst, m.logs, FALSE)
        ELSE IF MountedNameTaken(registry, m.tool)
        THEN Step(pnp, registry, hst,
                  <<Line("skipped: duplicate mounted name", m.tool.name, tool_path, <<>>)>>,
                  FALSE)
        ELSE Step(claimed, r.registry, r.host, <<>>, FALSE)

\* One iteration of the loop of register_discovered_tools
MountStep(tool_path, raw_spec, file, pnp, registry, hst) ==
    LET v == validate_tool_spec(raw_spec)
        published_name == tool_published_name(v.spec)
        m == Mount(v.spec, tool_path, file)
        claimed == Put(pnp, published_name, tool_path)
        r == _register_mounted_tool(hst, registry, m.tool)
    IN  IF v.err = "missing_name"
        THEN Step(pnp, registry, hst,
                  <<Line("tool invalid (missing_name)", <<>>, tool_path, <<>>)>>, FALSE)
        ELSE IF v.err = "missing_type"
        THEN Step(pnp, registry, hst,
                  <<Line("tool invalid (missing_type)", NameOrMissing(raw_spec),
                         tool_path, <<>>)>>, FALSE)
        ELSE IF ~v.ok
        THEN Step(pnp, registry, hst,
                  <<Line("skipped: no mount for that tool type", NameOrMissing(raw_spec),
                         <<>>, TypeOrMissing(raw_spec))>>, FALSE)
        ELSE IF published_name \in DOMAIN pnp
        THEN Step(pnp, registry, hst,
                  <<Line("skipped: duplicate published name", published_name,
                         tool_path, pnp[published_name])>>, FALSE)
        ELSE IF m.out = "raise" THEN Step(claimed, registry, hst, <<>>, TRUE)
        ELSE IF m.out = "absent" THEN Step(claimed, registry, hst, m.logs, FALSE)
        ELSE IF MountedNameTaken(registry, m.tool)
        THEN Step(claimed, registry, hst,
                  <<Line("skipped: duplicate mounted name", m.tool.name, tool_path, <<>>)>>,
                  FALSE)
        ELSE Step(claimed, r.registry, r.host, <<>>, FALSE)

(***************************************************************************)
(* Startup: build_state, then register_configured_tools                    *)
(***************************************************************************)
Callers == {"c1", "c2"}

NoInput == [t |-> "none", s |-> <<>>, d |-> EmptyDict]
NoResult == [t |-> "none", by |-> NoRunner, payload |-> NoInput, extra |-> ""]
NoEvent ==
    [op |-> "none", via |-> "none", name |-> <<>>, input |-> NoInput,
     invoked |-> NoRunner, passed |-> NoInput, result |-> NoResult]

\* What a script's entry point returned
NoValue == [t |-> "none", s |-> <<>>, payload |-> NoInput]

\* What a runner returned; `keys` are the keys of the mapping the runner itself
\* builds (a mapping a script returns keeps the script's own keys, not modelled)
NoRes ==
    [shape |-> "none", stdout |-> <<>>, stderr |-> <<>>, exit_code |-> 0,
     value |-> NoValue, body |-> <<>>, input |-> NoInput,
     keys |-> {}, type |-> "", text |-> <<>>]

\* What a spawned process produced
NoProc == [stdout |-> <<>>, stderr |-> <<>>, returncode |-> 0]

\* One invocation of a runner: who asked for what, what the runner was given, what
\* it did (process spawned, source file read, entry point invoked) and how it ended
NoRun ==
    [via |-> "none", name |-> <<>>, runner |-> NoRunner, asked |-> NoInput,
     input |-> NoInput, out |-> "none", error |-> "", passed |-> NoInput,
     spawned |-> FALSE, argv |-> <<>>, proc |-> NoProc, read |-> FALSE, loaded |-> <<>>,
     invoked |-> 0, value |-> NoValue, result |-> NoRes, logged |-> <<>>]

NoVerdict == Verdict(FALSE, EmptyDict, "not called", EmptyDict)

\* The unit variables while nothing is exercised on its own
UnitIdle ==
    /\ entries = {}
    /\ templates_flag = FALSE
    /\ raw_record = EmptyDict
    /\ verdict = NoVerdict
    /\ published = <<>>
    /\ run = NoRun
    /\ ncalls = 0
    /\ pycache = EmptyDict

\* The state build_state leaves, before the mounting pass starts
PassStart ==
    /\ pc = "discover"
    /\ paths = <<>>
    /\ specs = <<>>
    /\ idx = 1
    /\ published_name_to_path = EmptyDict
    /\ tool_runner_registry = EmptyDict
    /\ host = EmptyDict
    /\ log = <<>>
    /\ calls = [c \in Callers |-> <<>>]
    /\ lastEvent = NoEvent

StartWith(trees) ==
    /\ tree \in trees
    /\ PassStart
    /\ UnitIdle

Init == StartWith(Trees)

\* iter_tool_spec_paths(state["tools_dir"], include_templates=False)
Discover ==
    /\ pc = "discover"
    /\ \E e \in Enumerations(DOMAIN tree) : paths' = iter_tool_spec_paths(e, FALSE)
    /\ pc' = "parse"
    /\ idx' = 1
    /\ UNCHANGED unitVars
    /\ UNCHANGED <<tree, specs, published_name_to_path, tool_runner_registry, host, log,
                   calls, lastEvent>>

\* One iteration of the loop of iter_tool_specs
ParseOne ==
    /\ pc = "parse"
    /\ idx <= Len(paths)
    /\ LET tool_path == paths[idx]
           parsed == parse_tool_yaml(tree[tool_path], tool_path)
       IN  IF parsed.out = "raise"
           THEN /\ pc' = "raised"
                /\ UNCHANGED <<specs, idx, log>>
           ELSE /\ log' = log \o parsed.logs
                /\ specs' = IF SpecIsFalsy(parsed) THEN specs
                            ELSE Append(specs, [path |-> tool_path, raw |-> parsed.rec])
                /\ idx' = idx + 1
                /\ pc' = pc
    /\ UNCHANGED unitVars
    /\ UNCHANGED <<tree, paths, published_name_to_path, tool_runner_registry, host,
                   calls, lastEvent>>

ParseEnd ==
    /\ pc = "parse"
    /\ idx > Len(paths)
    /\ pc' = "mount"
    /\ idx' = 1
    /\ UNCHANGED unitVars
    /\ UNCHANGED <<tree, paths, specs, published_name_to_path, tool_runner_registry, host,
                   log, calls, lastEvent>>

MountOne ==
    /\ pc = "mount"
    /\ idx <= Len(specs)
    /\ LET tool_path == specs[idx].path
           st == MountStep(tool_path, specs[idx].raw, tree[tool_path],
                           published_name_to_path, tool_runner_registry, host)
       IN  /\ published_name_to_path' = st.pnp
           /\ tool_runner_registry' = st.registry
           /\ host' = st.host
           /\ log' = log \o st.logs
           /\ pc' = IF st.raised THEN "raised" ELSE pc
           /\ idx' = IF st.raised THEN idx ELSE idx + 1
    /\ UNCHANGED unitVars
    /\ UNCHANGED <<tree, paths, specs, calls, lastEvent>>

MountEnd ==
    /\ pc = "mount"
    /\ idx > Len(specs)
    /\ pc' = "done"
    /\ UNCHANGED unitVars
    /\ UNCHANGED <<tree, paths, specs, idx, published_name_to_path, tool_runner_registry,
                   host, log, calls, lastEvent>>

(***************************************************************************)
(* Call time.  The host calls its registered handler; a script body calls  *)
(* other tools through call_tool.  A frame is one runner invocation in     *)
(* progress.                                                               *)
(***************************************************************************)
Input(t, chars, d) == [t |-> t, s |-> chars, d |-> d]

Inputs ==
    { NoInput,
      Input("str", <<"a", " ", "b">>, EmptyDict),
      Input("dict", <<>>, EmptyDict),
      Input("other", <<"5">>, EmptyDict) }

\* Names a caller may ask for: what the specs can publish, and one nobody publishes
CallNames == {<<"a">>, <<"b">>, <<"z">>}

Frame(name, runner, input) == [name |-> name, runner |-> runner, input |-> input]

Result(t, by, payload, extra) == [t |-> t, by |-> by, payload |-> payload, extra |-> extra]

Event(op, via, name, input, invoked, passed, result) ==
    [op |-> op, via |-> via, name |-> name, input |-> input,
     invoked |-> invoked, passed |-> passed, result |-> result]

RECURSIVE SumFrames(_)
SumFrames(S) ==
    IF S = {} THEN 0
    ELSE LET c == CHOOSE x \in S : TRUE IN Len(calls[c]) + SumFrames(S \ {c})

Top(c) == calls[c][Len(calls[c])]
Push(c, frame) == [calls EXCEPT ![c] = Append(@, frame)]
Pop(c) == [calls EXCEPT ![c] = SubSeq(@, 1, Len(@) - 1)]

\* Mutant of HandlerPayload: absent input reaches the runner as an empty string
HandlerPayloadEmptyString(input) ==
    IF input.t = "none" THEN Input("str", <<>>, EmptyDict) ELSE input

\* `_tool` of _register_mounted_tool: payload = {} if input is None else input
HandlerPayload(input) == IF input.t = "none" THEN Input("dict", <<>>, EmptyDict) ELSE input

\* Mutant of _call_tool: an unknown name yields an empty result instead of an error
_call_tool_silent(registry, name, input) ==
    IF name \notin DOMAIN registry
    THEN [found |-> FALSE, runner |-> NoRunner, passed |-> NoInput,
          error |-> Result("ok", NoRunner, input, "")]
    ELSE [found |-> TRUE, runner |-> registry[name], passed |-> input, error |-> NoResult]

\* Mutant of _call_tool: a name that is already running is refused
_call_tool_no_reentry(registry, name, input) ==
    IF name \notin DOMAIN registry
    THEN [found |-> FALSE, runner |-> NoRunner, passed |-> NoInput,
          error |-> Result("error", NoRunner, input, "unknown tool")]
    ELSE IF \E c \in Callers : \E i \in 1..Len(calls[c]) : calls[c][i].name = name
    THEN [found |-> FALSE, runner |-> NoRunner, passed |-> NoInput,
          error |-> Result("error", NoRunner, input, "tool is already running")]
    ELSE [found |-> TRUE, runner |-> registry[name], passed |-> input, error |-> NoResult]

\* Mutant of _call_tool: only what the first spec of the pass mounted can be called
_call_tool_first_mounted(registry, name, input) ==
    IF name \notin DOMAIN registry \/ registry[name].path # paths[1]
    THEN [found |-> FALSE, runner |-> NoRunner, passed |-> NoInput,
          error |-> Result("error", NoRunner, input, "unknown tool")]
    ELSE [found |-> TRUE, runner |-> registry[name], passed |-> input, error |-> NoResult]

\* `_call_tool` of register_configured_tools: the lookup and what reaches the runner
_call_tool(registry, name, input) ==
    IF name \notin DOMAIN registry
    THEN [found |-> FALSE, runner |-> NoRunner, passed |-> NoInput,
          error |-> Result("error", NoRunner, input, "unknown tool")]
    ELSE [found |-> TRUE, runner |-> registry[name], passed |-> input, error |-> NoResult]

\* `return tool(input)`: what the dispatcher hands back to the script
_call_tool_return(result) == result

\* The host invokes the handler registered under `name`
HostCall(c, name, input) ==
    /\ pc = "done"
    /\ calls[c] = <<>>
    /\ SumFrames(Callers) < MaxFrames
    /\ name \in DOMAIN host
    /\ calls' = Push(c, Frame(name, host[name].handler, HandlerPayload(input)))
    /\ lastEvent' = Event("call", "host", name, input, host[name].handler,
                          HandlerPayload(input), NoResult)
    /\ UNCHANGED unitVars
    /\ UNCHANGED <<tree, pc, paths, specs, idx, published_name_to_path,
                   tool_runner_registry, host, log>>

\* The script running in the top frame calls tools["call_tool"](name, input)
NestedCall(c, name, input) ==
    /\ pc = "done"
    /\ calls[c] # <<>>
    /\ Top(c).runner.kind = "python"
    /\ Top(c).input.t # "other"
    /\ LET r == _call_tool(tool_runner_registry, name, input)
       IN  IF r.found
           THEN /\ SumFrames(Callers) < MaxFrames
                /\ calls' = Push(c, Frame(name, r.runner, r.passed))
                /\ lastEvent' = Event("call", "nested", name, input, r.runner,
                                      r.passed, NoResult)
           ELSE /\ calls' = calls
                /\ lastEvent' = Event(IF r.error.t = "error" THEN "raise" ELSE "return",
                                      "nested", name, input, NoRunner, NoInput, r.error)
    /\ UNCHANGED unitVars
    /\ UNCHANGED <<tree, pc, paths, specs, idx, published_name_to_path,
                   tool_runner_registry, host, log>>

\* What a runner makes of its input before it does any work
RunnerAccepts(runner, input) ==
    CASE runner.kind = "cli"    -> input.t \in {"none", "str", "dict"}
      [] runner.kind = "python" -> input.t \in {"none", "str", "dict"}
      [] OTHER                  -> TRUE

\* The outcomes the runner in a frame can end with
Outcomes(frame) ==
    IF ~RunnerAccepts(frame.runner, frame.input)
    THEN {Result("error", frame.runner, frame.input, "invalid input")}
    ELSE CASE frame.runner.kind = "cli" ->
                {Result("ok", frame.runner, frame.input, "exit 0"),
                 Result("ok", frame.runner, frame.input, "exit 2")}
           [] frame.runner.kind = "python" ->
                {Result("ok", frame.runner, frame.input, "returned"),
                 Result("error", frame.runner, frame.input, "script raised")}
           [] OTHER ->
                {Result("ok", frame.runner, frame.input, "text")}

\* Mutant of Complete: a tool whose call failed is dropped from the catalog
CompleteDroppingFailed(c) ==
    /\ pc = "done"
    /\ calls[c] # <<>>
    /\ \E out \in Outcomes(Top(c)) :
          /\ lastEvent' = Event(IF out.t = "ok" THEN "return" ELSE "raise",
                                IF Len(calls[c]) > 1 THEN "nested" ELSE "host",
                                Top(c).name, Top(c).input, Top(c).runner, Top(c).input, out)
          /\ tool_runner_registry' =
                IF out.t = "ok" THEN tool_runner_registry
                ELSE [n \in DOMAIN tool_runner_registry \ {Top(c).name} |->
                          tool_runner_registry[n]]
    /\ calls' = Pop(c)
    /\ UNCHANGED unitVars
    /\ UNCHANGED <<tree, pc, paths, specs, idx, published_name_to_path, host, log>>

\* The runner of the top frame ends; its result or error goes to whoever called it
Complete(c) ==
    /\ pc = "done"
    /\ calls[c] # <<>>
    /\ \E out \in Outcomes(Top(c)) :
          lastEvent' = Event(IF out.t = "ok" THEN "return" ELSE "raise",
                             IF Len(calls[c]) > 1 THEN "nested" ELSE "host",
                             Top(c).name, Top(c).input, Top(c).runner, Top(c).input,
                             IF Len(calls[c]) > 1 THEN _call_tool_return(out) ELSE out)
    /\ calls' = Pop(c)
    /\ UNCHANGED unitVars
    /\ UNCHANGED <<tree, pc, paths, specs, idx, published_name_to_path,
                   tool_runner_registry, host, log>>

(***************************************************************************)
(* The runners in full.  A value inside an input mapping is a string, a    *)
(* number, a list of strings (`l`) or a list holding something else.       *)
(***************************************************************************)
PV(t, chars, words) == [t |-> t, s |-> chars, l |-> words]
PNone == PV("none", <<>>, <<>>)
PStr(chars) == PV("str", chars, <<>>)
PInt(chars) == PV("int", chars, <<>>)
PList(words) == PV("list", <<>>, words)
PMixedList(words) == PV("mixedlist", <<>>, words)

\* payload.get(key)
PGet(d, k) == IF k \in DOMAIN d THEN d[k] ELSE PNone

Dict(d) == Input("dict", <<>>, d)

\* shlex.split, character by character: blanks separate words, single quotes keep
\* blanks in a word and may leave it empty, an open quote at the end is an error
RECURSIVE ShlexScan(_, _, _, _, _)
ShlexScan(s, quoted, started, cur, words) ==
    IF s = <<>>
    THEN IF quoted THEN [ok |-> FALSE, words |-> <<>>]
         ELSE [ok |-> TRUE, words |-> IF started THEN Append(words, cur) ELSE words]
    ELSE IF quoted
    THEN IF Head(s) = "'" THEN ShlexScan(Tail(s), FALSE, TRUE, cur, words)
         ELSE ShlexScan(Tail(s), TRUE, TRUE, Append(cur, Head(s)), words)
    ELSE IF Head(s) = "'" THEN ShlexScan(Tail(s), TRUE, TRUE, cur, words)
    ELSE IF IsSpace(Head(s))
    THEN ShlexScan(Tail(s), FALSE, FALSE, <<>>, IF started THEN Append(words, cur) ELSE words)
    ELSE ShlexScan(Tail(s), FALSE, TRUE, Append(cur, Head(s)), words)

\* Mutant of shlex_split: the whole string is one word
shlex_split_one_word(s) == [ok |-> TRUE, words |-> <<s>>]

shlex_split(s) == ShlexScan(s, FALSE, FALSE, <<>>, <<>>)

\* What _tool_runner of the cli adapter hands to _run_cli, or the error it raises
CliCall(err, args, stdin, cwd) == [err |-> err, args |-> args, stdin |-> stdin, cwd |-> cwd]

\* Mutant of cli_check_payload: nothing is checked
cli_check_payload_unchecked(payload) ==
    CliCall("", PGet(payload, "args").l, PGet(payload, "stdin"), PGet(payload, "cwd"))

\* The checks of args, stdin and cwd, in the order of the code
cli_check_payload(payload) ==
    IF PGet(payload, "args").t \notin {"none", "list"}
    THEN CliCall("input.args must be a list of strings when provided", <<>>, PNone, PNone)
    ELSE IF PGet(payload, "stdin").t \notin {"none", "str"}
    THEN CliCall("input.stdin must be a string when provided", <<>>, PNone, PNone)
    ELSE IF PGet(payload, "cwd").t \notin {"none", "str"}
    THEN CliCall("input.cwd must be a string when provided", <<>>, PNone, PNone)
    ELSE CliCall("", PGet(payload, "args").l, PGet(payload, "stdin"), PGet(payload, "cwd"))

\* _tool_runner of the cli adapter, up to the call of _run_cli
cli_tool_runner(input) ==
    CASE input.t = "none" -> cli_check_payload(EmptyDict)
      [] input.t = "str" ->
            IF shlex_split(input.s).ok
            THEN cli_check_payload([args |-> PList(shlex_split(input.s).words)])
            ELSE CliCall("No closing quotation", <<>>, PNone, PNone)
      [] input.t = "dict" -> cli_check_payload(input.d)
      [] OTHER ->
            CliCall("input must be an object or string when provided", <<>>, PNone, PNone)

\* log(f"[healthcheck] process failed: cmd={cmd[0]} exit={result.returncode}")
HealthLine(cmd, returncode) ==
    [prefix |-> "[healthcheck]", tag |-> "process failed", name |-> cmd, path |-> <<>>,
     other |-> <<ToString(returncode)>>]

\* What a process may produce: output with or without trailing whitespace, and an
\* exit code that is zero, positive or (killed by a signal) negative
Procs ==
    [stdout : {<<>>, <<" ", "o", " ", "\n">>}, stderr : {<<>>, <<"e", "\n">>},
     returncode : {0, 2, -9}]

\* The outcome of one runner invocation
Outcome(out, error, passed, spawned, argv, proc, read, loaded, invoked, value, result, logged, cache) ==
    [out |-> out, error |-> error, passed |-> passed, spawned |-> spawned, argv |-> argv,
     proc |-> proc, read |-> read, loaded |-> loaded, invoked |-> invoked,
     value |-> value, result |-> result, logged |-> logged, cache |-> cache]

\* Mutant of _run_cli: a non-zero exit is raised as an error, as with check=True
_run_cli_checked(command, call, proc, cache) ==
    LET cmd == IF call.args # <<>> THEN <<command>> \o call.args ELSE <<command>>
    IN  IF proc.returncode # 0
        THEN Outcome("raise", "CalledProcessError", NoInput, TRUE, cmd, proc, FALSE, <<>>,
                     0, NoValue, NoRes, <<>>, cache)
        ELSE Outcome("return", "", NoInput, TRUE, cmd, proc, FALSE, <<>>, 0, NoValue,
                     [NoRes EXCEPT !.shape = "cli", !.stdout = RStrip(proc.stdout),
                                   !.stderr = RStrip(proc.stderr),
                                   !.exit_code = proc.returncode],
                     <<>>, cache)

\* _run_cli(args, stdin, cwd) when the process ran and ended as `proc`
_run_cli(command, call, proc, cache) ==
    LET cmd == IF call.args # <<>> THEN <<command>> \o call.args ELSE <<command>>
    IN  Outcome("return", "", NoInput, TRUE, cmd, proc, FALSE, <<>>, 0, NoValue,
                [NoRes EXCEPT !.shape = "cli", !.stdout = RStrip(proc.stdout),
                              !.stderr = RStrip(proc.stderr),
                              !.exit_code = proc.returncode,
                              !.keys = {"stdout", "stderr", "exit_code"}],
                IF proc.returncode # 0 THEN <<HealthLine(command, proc.returncode)>>
                ELSE <<>>,
                cache)

\* The runner ends in an error before it spawned, read or invoked anything
RaisesEarly(error, cache) ==
    Outcome("raise", error, NoInput, FALSE, <<>>, NoProc, FALSE, <<>>, 0, NoValue, NoRes,
            <<>>, cache)

\* subprocess.run found nothing to run: the error leaves the runner
SpawnFails(command, call, cache) ==
    Outcome("raise", "FileNotFoundError", NoInput, FALSE, <<>>, NoProc, FALSE, <<>>, 0,
            NoValue, NoRes, <<>>, cache)

\* Every way an invocation of the cli runner can end
CliOutcomes(runner, input, cache) ==
    LET call == cli_tool_runner(input)
    IN  IF call.err # "" THEN {RaisesEarly(call.err, cache)}
        ELSE {SpawnFails(runner.cap, call, cache)}
                \cup {_run_cli(runner.cap, call, proc, cache) : proc \in Procs}

\* Contents a source file may have.  As a script: v1 defines run() returning a
\* mapping, v2 defines run() returning a string, v3 defines no run().
Bodies == {<<"v1">>, <<"v2">>, <<"v3">>}

\* A file's modification second and size, which an edit may change or keep
Stamps == {"s0", "s1"}

\* Bytecode cached next to a script: the stamp of the source it was compiled from
NoCache == [stamp |-> "none", text |-> <<>>]
CacheOf(tool_path) == IF tool_path \in DOMAIN pycache THEN pycache[tool_path] ELSE NoCache

\* spec.loader.exec_module(module): the source loader executes cached bytecode when
\* its stamp is the source file's, else it compiles the file and may cache the result
Loads(file, cache) ==
    IF file.src # "file" THEN {[ok |-> FALSE, body |-> <<>>, cache |-> cache]}
    ELSE IF cache.stamp = file.stamp THEN {[ok |-> TRUE, body |-> cache.text, cache |-> cache]}
    ELSE {[ok |-> TRUE, body |-> file.text, cache |-> c] :
             c \in {cache, [stamp |-> file.stamp, text |-> file.text]}}

\* runner(payload, tools, source_path.parent): what run() of that body returns
EntryValue(body, payload) ==
    IF body = <<"v1">> THEN [t |-> "dict", s |-> body, payload |-> payload]
    ELSE [t |-> "str", s |-> body, payload |-> payload]

\* Mutant of python_payload: a string is handed on as it is
python_payload_unwrapped(input) ==
    CASE input.t = "none" -> [ok |-> TRUE, payload |-> Dict(EmptyDict)]
      [] input.t = "dict" -> [ok |-> TRUE, payload |-> input]
      [] input.t = "str"  -> [ok |-> TRUE, payload |-> input]
      [] OTHER            -> [ok |-> FALSE, payload |-> NoInput]

\* The payload _tool_runner of the python adapter builds from its input
python_payload(input) ==
    CASE input.t = "none" -> [ok |-> TRUE, payload |-> Dict(EmptyDict)]
      [] input.t = "dict" -> [ok |-> TRUE, payload |-> input]
      [] input.t = "str"  -> [ok |-> TRUE, payload |-> Dict([input |-> PStr(input.s)])]
      [] OTHER            -> [ok |-> FALSE, payload |-> NoInput]

\* if not isinstance(result, dict): result = {"result": result}
python_result(value) ==
    [NoRes EXCEPT !.shape = IF value.t = "dict" THEN "value" ELSE "wrapped",
                  !.value = value,
                  !.keys = IF value.t = "dict" THEN {} ELSE {"result"}]

\* _run_python_tool(payload) with the module loaded as `l`
_run_python_tool(payload, l) ==
    IF ~l.ok
    THEN {Outcome("raise", "FileNotFoundError", NoInput, FALSE, <<>>, NoProc, TRUE, <<>>,
                  0, NoValue, NoRes, <<>>, l.cache)}
    ELSE IF l.body = <<"v3">>
    THEN {Outcome("raise", "Tool module missing run()", NoInput, FALSE, <<>>, NoProc, TRUE,
                  l.body, 0, NoValue, NoRes, <<>>, l.cache)}
    ELSE {Outcome("return", "", payload, FALSE, <<>>, NoProc, TRUE, l.body, 1,
                  EntryValue(l.body, payload), python_result(EntryValue(l.body, payload)),
                  <<>>, l.cache),
          Outcome("raise", "run() raised", payload, FALSE, <<>>, NoProc, TRUE, l.body, 1,
                  NoValue, NoRes, <<>>, l.cache)}

\* Every way an invocation of the python runner can end
PythonOutcomes(runner, input, file, cache) ==
    IF ~python_payload(input).ok
    THEN {RaisesEarly("input must be an object or string when provided", cache)}
    ELSE UNION {_run_python_tool(python_payload(input).payload, l) : l \in Loads(file, cache)}

(***************************************************************************)
(* json.dumps(payload, ensure_ascii=True) over the characters of the text. *)
(* "U+00E9" stands for one non-ASCII character of a string; a key of a     *)
(* mapping is one piece of text.                                           *)
(***************************************************************************)
\* Mutant of JsonEscape: every character is written as it is
JsonEscapeNone(c) == <<c>>

\* One character of a string as the encoder writes it
JsonEscape(c) ==
    CASE c = "\"" -> <<"\\", "\"">>
      [] c = "\\" -> <<"\\", "\\">>
      [] c = "\n" -> <<"\\", "n">>
      [] c = "\t" -> <<"\\", "t">>
      [] c = "U+00E9" -> <<"\\", "u", "0", "0", "e", "9">>
      [] OTHER -> <<c>>

RECURSIVE JsonEscapeAll(_)
JsonEscapeAll(chars) ==
    IF chars = <<>> THEN <<>> ELSE JsonEscape(Head(chars)) \o JsonEscapeAll(Tail(chars))

JsonString(chars) == <<"\"">> \o JsonEscapeAll(chars) \o <<"\"">>

\* The items of a list, separated by ", "
RECURSIVE JsonJoin(_)
JsonJoin(items) ==
    IF items = <<>> THEN <<>>
    ELSE IF Len(items) = 1 THEN items[1]
    ELSE items[1] \o <<",", " ">> \o JsonJoin(Tail(items))

\* The item of a list that is not a string
OtherItem == <<"5">>

\* One value of a mapping: a string, a number, a list
JsonValue(v) ==
    CASE v.t = "str"  -> JsonString(v.s)
      [] v.t = "int"  -> v.s
      [] v.t = "list" -> <<"[">> \o JsonJoin([i \in 1..Len(v.l) |-> JsonString(v.l[i])]) \o <<"]">>
      [] v.t = "mixedlist" ->
            <<"[">> \o JsonJoin([i \in 1..Len(v.l) |-> JsonString(v.l[i])] \o <<OtherItem>>)
                    \o <<"]">>
      [] OTHER -> <<"n", "u", "l", "l">>

\* The keys an input mapping may carry, in the order they are written
KeyOrder == <<"args", "stdin", "cwd", "input">>

KeysOf(d) == SelectSeq(KeyOrder, LAMBDA k : k \in DOMAIN d)

\* "key": value
JsonMember(d, k) == <<"\"", k, "\"", ":", " ">> \o JsonValue(d[k])

JsonObject(d) ==
    <<"{">> \o JsonJoin([i \in 1..Len(KeysOf(d)) |-> JsonMember(d, KeysOf(d)[i])]) \o <<"}">>

\* json.dumps(payload, ensure_ascii=True)
json_dumps(payload) ==
    CASE payload.t = "dict" -> JsonObject(payload.d)
      [] payload.t = "str"  -> JsonString(payload.s)
      [] payload.t = "none" -> <<"n", "u", "l", "l">>
      [] OTHER              -> payload.s

PROMPT_TOOL_RESPONSE_HINT == "Tool behavior: this tool does not execute the task. It only returns instructions for you (the calling LM) to follow using other tools."

\* "\n\n---\ninput: " between the prompt text and the serialized payload
InputMarker == <<"i", "n", "p", "u", "t", ":", " ">>
Separator == <<"\n", "\n", "-", "-", "-", "\n">>

\* The f-string of _tool_runner: hint, blank line, prompt text, separator, input
PromptText(prompt_text, payload) ==
    <<PROMPT_TOOL_RESPONSE_HINT>> \o <<"\n", "\n">> \o prompt_text \o Separator
        \o InputMarker \o json_dumps(payload)

\* `input or {}`: None, "", {} and 0 are replaced by an empty mapping
InputOrEmpty(input) ==
    IF \/ input.t = "none"
       \/ input.t = "str" /\ input.s = <<>>
       \/ input.t = "dict" /\ DOMAIN input.d = {}
       \/ input.t = "other" /\ input.s = <<"0">>
    THEN Dict(EmptyDict)
    ELSE input

\* Mutant of text_tool_runner: the source file is read again at every call
text_tool_runner_rereading(runner, input, cache) ==
    Outcome("return", "", InputOrEmpty(input), FALSE, <<>>, NoProc, TRUE, <<>>, 0, NoValue,
            [NoRes EXCEPT !.shape = "text",
                          !.body = IF runner.kind = "markdown" THEN tree[runner.path].text
                                   ELSE runner.cap,
                          !.input = InputOrEmpty(input)],
            <<>>, cache)

\* Mutant of text_tool_runner: the input is used as it comes (payload = input)
text_tool_runner_raw(runner, input, cache) ==
    Outcome("return", "", input, FALSE, <<>>, NoProc, FALSE, <<>>, 0, NoValue,
            [NoRes EXCEPT !.shape = "text", !.body = runner.cap,
                          !.input = input,
                          !.keys = {"text", "input", "type"},
                          !.type = runner.kind,
                          !.text = PromptText(runner.cap, input)],
            <<>>, cache)

\* _tool_runner of build_text_prompt_mount: the text captured at mount time, after
\* the hint and before the input
text_tool_runner(runner, input, cache) ==
    Outcome("return", "", InputOrEmpty(input), FALSE, <<>>, NoProc, FALSE, <<>>, 0, NoValue,
            [NoRes EXCEPT !.shape = "text", !.body = runner.cap,
                          !.input = InputOrEmpty(input),
                          !.keys = {"text", "input", "type"},
                          !.type = runner.kind,
                          !.text = PromptText(runner.cap, InputOrEmpty(input))],
            <<>>, cache)

\* Every way an invocation of `runner` with `input` can end
RunOutcomes(runner, input, file, cache) ==
    CASE runner.kind = "cli"    -> CliOutcomes(runner, input, cache)
      [] runner.kind = "python" -> PythonOutcomes(runner, input, file, cache)
      [] OTHER                  -> {text_tool_runner(runner, input, cache)}

\* The mounting pass alone, over every tree
PassNext ==
    \/ Discover
    \/ ParseOne
    \/ ParseEnd
    \/ MountOne
    \/ MountEnd

Spec == Init /\ [][PassNext]_vars

\* The mounting pass followed by calls, over the trees of CallFiles
CallInit == StartWith(CallTrees)

Next ==
    \/ Discover
    \/ ParseOne
    \/ ParseEnd
    \/ MountOne
    \/ MountEnd
    \/ \E c \in Callers, name \in CallNames, input \in Inputs : HostCall(c, name, input)
    \/ \E c \in Callers, name \in CallNames, input \in Inputs : NestedCall(c, name, input)
    \/ \E c \in Callers : Complete(c)

CallSpec == CallInit /\ [][Next]_vars

(***************************************************************************)
(* iter_tool_spec_paths on its own: any directory, either flag, any order  *)
(* of enumeration, any number of times.                                    *)
(***************************************************************************)
PathInit ==
    /\ tree = EmptyDict
    /\ PassStart
    /\ entries \in SUBSET EntryPool
    /\ templates_flag = FALSE
    /\ raw_record = EmptyDict
    /\ verdict = NoVerdict
    /\ published = <<>>
    /\ run = NoRun
    /\ ncalls = 0
    /\ pycache = EmptyDict

\* iter_tool_spec_paths(tools_dir, include_templates=flag)
ListSpecPaths(flag) ==
    /\ \E e1 \in Enumerations(rglob(entries, "TOOL.yaml")),
          e2 \in Enumerations(rglob(entries, "TOOL.yml")) :
          LET tool_paths == e1 \o e2
          IN  paths' = iter_tool_spec_paths(
                           [i \in 1..Len(tool_paths) |-> resolve(tool_paths[i])], flag)
    /\ templates_flag' = flag
    /\ pc' = "listed"
    /\ UNCHANGED <<tree, specs, idx, published_name_to_path, tool_runner_registry, host,
                   log, calls, lastEvent>>
    /\ UNCHANGED <<entries, raw_record, verdict, published, run, ncalls, pycache>>

PathNext == \E flag \in BOOLEAN : ListSpecPaths(flag)

PathSpec == PathInit /\ [][PathNext]_vars

(***************************************************************************)
(* validate_tool_spec and tool_published_name on their own, on any record. *)
(***************************************************************************)
Opt(v) == [has |-> TRUE, v |-> v]
NoField == [has |-> FALSE, v |-> None]

\* The mapping with the fields that are there
RawRecord(name, type, mcp_name, description, command) ==
    LET f == [name |-> name, type |-> type, mcp_name |-> mcp_name,
              description |-> description, command |-> command]
    IN  [k \in {x \in DOMAIN f : f[x].has} |-> f[k].v]

RawRecords ==
    { RawRecord(n, t, m, d, c) :
        n \in { NoField, Opt(None), Opt(StrV(<<>>)), Opt(StrV(<<" ">>)), Opt(StrV(<<"a">>)),
                Opt(StrV(<<" ", "a", " ">>)), Opt(IntV(<<"5">>)), Opt(IntV(<<"0">>)) },
        t \in { NoField, Opt(None), Opt(StrV(<<" ">>)), Opt(StrV(T_cli)),
                Opt(StrV(<<" ", "C", "L", "I", " ">>)), Opt(StrV(T_python)),
                Opt(StrV(T_markdown)), Opt(StrV(T_prompt)), Opt(StrV(<<"d">>)),
                Opt(IntV(<<"0">>)) },
        m \in { NoField, Opt(StrV(<<" ">>)), Opt(StrV(<<" ", "b", " ">>)), Opt(IntV(<<"0">>)) },
        d \in { NoField, Opt(None), Opt(StrV(<<"d", " ">>)), Opt(IntV(<<"5">>)) },
        c \in { NoField, Opt(StrV(<<"c">>)) } }

ValidateInit ==
    /\ tree = EmptyDict
    /\ PassStart
    /\ entries = {}
    /\ templates_flag = FALSE
    /\ raw_record \in RawRecords
    /\ verdict = NoVerdict
    /\ published = <<>>
    /\ run = NoRun
    /\ ncalls = 0
    /\ pycache = EmptyDict

\* spec, error = validate_tool_spec(raw_spec)
Validate ==
    /\ verdict = NoVerdict
    /\ verdict' = validate_tool_spec(raw_record)
    /\ raw_record' = validate_tool_spec(raw_record).raw
    /\ UNCHANGED <<tree, pc, paths, specs, idx, published_name_to_path,
                   tool_runner_registry, host, log, calls, lastEvent>>
    /\ UNCHANGED <<entries, templates_flag, published, run, ncalls, pycache>>

\* published_name = tool_published_name(spec)
Publish ==
    /\ verdict.ok
    /\ published = <<>>
    /\ published' = tool_published_name(verdict.spec)
    /\ UNCHANGED <<tree, pc, paths, specs, idx, published_name_to_path,
                   tool_runner_registry, host, log, calls, lastEvent>>
    /\ UNCHANGED <<entries, templates_flag, raw_record, verdict, run, ncalls, pycache>>

ValidateNext ==
    \/ Validate
    \/ Publish

ValidateSpec == ValidateInit /\ [][ValidateNext]_vars

(***************************************************************************)
(* One mounted tool and its runner in full: the pass over a tree of one    *)
(* spec, then invocations by the host or through call_tool, while the      *)
(* tool's source file is edited or deleted at any time.                    *)
(***************************************************************************)
RunFiles ==
    { File("object", [name |-> StrV(<<"a">>), type |-> StrV(T_cli),
                      command |-> StrV(<<"c">>)], "none"),
      File("object", [name |-> StrV(<<"a">>), type |-> StrV(T_python),
                      source |-> StrV(<<"c">>)], "file"),
      File("object", [name |-> StrV(<<"a">>), type |-> StrV(T_markdown),
                      source |-> StrV(<<"c">>)], "file"),
      File("object", [name |-> StrV(<<"a">>), type |-> StrV(T_prompt),
                      source |-> StrV(<<"c">>)], "none") }

RunTrees == [ {SpecPathList[1]} -> RunFiles ]

RunInputs ==
    { NoInput,
      Input("other", <<"5">>, EmptyDict),
      Input("str", <<>>, EmptyDict),
      Input("str", <<"a", " ", "b">>, EmptyDict),
      Input("str", <<" ", "a", " ", " ", "b", " ">>, EmptyDict),
      Input("str", <<"'", "a", " ", "b", "'">>, EmptyDict),
      Input("str", <<"a", " ", "'", "b">>, EmptyDict),
      Dict(EmptyDict),
      Dict([args |-> PList(<< <<"a">>, <<"b">> >>)]),
      Dict([args |-> PList(<<>>)]),
      Dict([args |-> PStr(<<"a", " ", "b">>)]),
      Dict([args |-> PMixedList(<< <<"a">> >>)]),
      Dict([args |-> PList(<< <<"a">> >>), stdin |-> PStr(<<"b">>), cwd |-> PStr(<<"d">>)]),
      Dict([stdin |-> PInt(<<"5">>)]),
      Dict([args |-> PList(<< <<"a">> >>), cwd |-> PInt(<<"5">>)]),
      Dict([stdin |-> PStr(<<"a", "\"", "\\", "\n", "U+00E9", ",", " ">>)]) }

RunInit == StartWith(RunTrees)

\* One call of a mounted tool, start to end: by the host through the handler it
\* registered, or by a script through call_tool and the catalog
Invoke(via, name, input) ==
    /\ pc = "done"
    /\ ncalls < MaxCalls
    /\ name \in DOMAIN tool_runner_registry
    /\ name \in DOMAIN host
    /\ LET runner == IF via = "host" THEN host[name].handler
                      ELSE _call_tool(tool_runner_registry, name, input).runner
           given == IF via = "host" THEN HandlerPayload(input)
                    ELSE _call_tool(tool_runner_registry, name, input).passed
       IN  \E o \in RunOutcomes(runner, given, tree[runner.path], CacheOf(runner.path)) :
              /\ run' = [via |-> via, name |-> name, runner |-> runner, asked |-> input,
                         input |-> given, out |-> o.out, error |-> o.error,
                         passed |-> o.passed, spawned |-> o.spawned, argv |-> o.argv,
                         proc |-> o.proc, read |-> o.read, loaded |-> o.loaded,
                         invoked |-> o.invoked, value |-> o.value, result |-> o.result,
                         logged |-> o.logged]
              /\ log' = log \o o.logged
              /\ pycache' = IF runner.kind = "python" THEN Put(pycache, runner.path, o.cache)
                            ELSE pycache
    /\ ncalls' = ncalls + 1
    /\ UNCHANGED <<tree, pc, paths, specs, idx, published_name_to_path,
                   tool_runner_registry, host, calls, lastEvent>>
    /\ UNCHANGED <<entries, templates_flag, raw_record, verdict, published>>

\* The spec at tool_path names a source file (a script or a text file)
HasSourceFile(tool_path) == tree[tool_path].src \in {"file", "missing"}

\* Somebody writes the source file: other content, and a stamp that changes or not
EditSource(tool_path, text, stamp) ==
    /\ HasSourceFile(tool_path)
    /\ tree[tool_path].src = "file" => tree[tool_path].text # text
    /\ tree' = [tree EXCEPT ![tool_path].src = "file", ![tool_path].text = text,
                            ![tool_path].stamp = stamp]
    /\ UNCHANGED <<pc, paths, specs, idx, published_name_to_path, tool_runner_registry,
                   host, log, calls, lastEvent>>
    /\ UNCHANGED unitVars

\* Somebody deletes the source file
DeleteSource(tool_path) ==
    /\ tree[tool_path].src = "file"
    /\ tree' = [tree EXCEPT ![tool_path].src = "missing"]
    /\ UNCHANGED <<pc, paths, specs, idx, published_name_to_path, tool_runner_registry,
                   host, log, calls, lastEvent>>
    /\ UNCHANGED unitVars

RunNext ==
    \/ Discover
    \/ ParseOne
    \/ ParseEnd
    \/ MountOne
    \/ MountEnd
    \/ \E via \in {"host", "nested"}, name \in CallNames, input \in RunInputs :
          Invoke(via, name, input)
    \/ \E tool_path \in DOMAIN tree, text \in Bodies, stamp \in Stamps :
          EditSource(tool_path, text, stamp)
    \/ \E tool_path \in DOMAIN tree : DeleteSource(tool_path)

RunSpec == RunInit /\ [][RunNext]_vars

(***************************************************************************)
(* Properties of the mounting pass                                         *)
(***************************************************************************)
\* The spec at `tool_path` got a runner into the catalog
MountedFrom(tool_path) ==
    \E n \in DOMAIN tool_runner_registry : tool_runner_registry[n].path = tool_path

\* Number of lines of the log that equal `line`
CountLines(line) == Cardinality({k \in 1..Len(log) : log[k] = line})

HasLine(tag) == \E k \in 1..Len(log) : log[k].tag = tag

Valid(i) == validate_tool_spec(specs[i].raw).ok
SpecOf(i) == validate_tool_spec(specs[i].raw).spec
PublishedOf(i) == tool_published_name(SpecOf(i))
MountOf(i) == Mount(SpecOf(i), specs[i].path, tree[specs[i].path])

\* The validated specs i and j publish one name, and i's path sorts first of the two
SameNamePair(i, j) ==
    /\ Valid(i) /\ Valid(j)
    /\ PublishedOf(i) = PublishedOf(j)
    /\ PathLess(specs[i].path, specs[j].path)

\* No validated spec of an earlier path publishes the name of spec i
FirstClaimant(i) ==
    \A k \in 1..Len(specs) :
        (Valid(k) /\ PublishedOf(k) = PublishedOf(i))
            => ~PathLess(specs[k].path, specs[i].path)

\* C1: during and after the pass a catalog entry, once inserted, is never replaced
\* or removed, and a mounted tool whose runtime name is already a catalog key is
\* skipped with exactly one 'duplicate mounted name' line, the entry being kept.
C1_CatalogEntriesKept ==
    [][ /\ \A n \in DOMAIN tool_runner_registry :
              /\ n \in DOMAIN tool_runner_registry'
              /\ tool_runner_registry'[n] = tool_runner_registry[n]
        /\ ( /\ pc = "mount" /\ idx <= Len(specs)
             /\ Valid(idx)
             /\ PublishedOf(idx) \notin DOMAIN published_name_to_path
             /\ MountOf(idx).out = "tool"
             /\ MountOf(idx).tool.name \in DOMAIN tool_runner_registry )
           => /\ tool_runner_registry' = tool_runner_registry
              /\ log' = Append(log, Line("skipped: duplicate mounted name",
                                         MountOf(idx).tool.name, specs[idx].path, <<>>))
      ]_vars

C1_Witness == HasLine("skipped: duplicate mounted name")

\* C2 as claimed: of two validated specs with one published name exactly one is
\* mounted, the one whose path sorts first, and exactly one duplicate-name line
\* naming both paths is logged.
C2_Original ==
    pc = "done" =>
        \A i, j \in 1..Len(specs) :
            SameNamePair(i, j) =>
                /\ MountedFrom(specs[i].path)
                /\ ~MountedFrom(specs[j].path)
                /\ CountLines(Line("skipped: duplicate published name", PublishedOf(j),
                                   specs[j].path, specs[i].path)) = 1

\* C2 (amended): of two validated specs with one published name the later by path is
\* never mounted and, the earlier being the first to claim the name, is skipped with
\* exactly one duplicate-name line naming both paths; that first claimant is mounted
\* exactly when its adapter returns a tool whose runtime name no earlier spec holds.
C2_FirstPathWins ==
    pc = "done" =>
        \A i, j \in 1..Len(specs) :
            (SameNamePair(i, j) /\ FirstClaimant(i)) =>
                /\ ~MountedFrom(specs[j].path)
                /\ CountLines(Line("skipped: duplicate published name", PublishedOf(j),
                                   specs[j].path, specs[i].path)) = 1
                /\ MountedFrom(specs[i].path) <=>
                      /\ MountOf(i).out = "tool"
                      /\ ~( /\ MountOf(i).tool.name \in DOMAIN tool_runner_registry
                            /\ PathLess(tool_runner_registry[MountOf(i).tool.name].path,
                                        specs[i].path) )

C2_Witness ==
    /\ pc = "done"
    /\ \E i, j \in 1..Len(specs) :
          /\ SameNamePair(i, j)
          /\ MountedFrom(specs[i].path)
          /\ HasLine("skipped: duplicate published name")

\* The descriptor-specific problems an adapter meets in the validated spec i: no
\* command, no usable source, or a source path that names no readable file
HasMountProblem(i) ==
    LET type == SpecOf(i)["type"].s
        file == tree[specs[i].path]
    IN  \/ type = T_cli /\ Strip(StrOr(Get(SpecOf(i), "command"))) = <<>>
        \/ type # T_cli /\ ~UsableSource(Get(SpecOf(i), "source"))
        \/ type \in {T_python, T_markdown} /\ file.src \in {"missing", "dir"}

\* C3 as claimed: whatever the tree holds the pass never raises, and at its end every
\* spec that is valid, mountable and first to claim its published name is in the
\* catalog.
C3_Original ==
    /\ pc # "raised"
    /\ pc = "done" =>
          \A i \in 1..Len(specs) :
              (Valid(i) /\ ~HasMountProblem(i) /\ FirstClaimant(i))
                  => MountedFrom(specs[i].path)

\* Every discovered file is a mapping that validates and that its adapter mounts, and
\* no two of them publish the same name
AllValidAndDistinct ==
    /\ Len(specs) = Len(paths)
    /\ \A i \in 1..Len(specs) : Valid(i) /\ MountOf(i).out = "tool"
    /\ \A i, j \in 1..Len(specs) : PublishedOf(i) = PublishedOf(j) => i = j

\* C4 as claimed: N valid descriptors with pairwise distinct published names give a
\* catalog of exactly N entries.
C4_Original ==
    (pc = "done" /\ AllValidAndDistinct)
        => Cardinality(DOMAIN tool_runner_registry) = Len(specs)

\* C5 as claimed: every catalog key is non-empty, is a key of published_name_to_path,
\* is the published name tool_published_name computed for the spec it came from, and
\* is the name the tool has with the host.
C5_Original ==
    \A n \in DOMAIN tool_runner_registry :
        /\ n # <<>>
        /\ n \in DOMAIN published_name_to_path
        /\ n \in DOMAIN host
        /\ \E i \in 1..Len(specs) :
              /\ specs[i].path = tool_runner_registry[n].path
              /\ Valid(i)
              /\ n = PublishedOf(i)

\* C6: between any two specs of the pass (and at its end) the names registered with
\* the host are exactly the catalog keys, each handler wrapping the catalog's runner.
C6_HostMatchesCatalog ==
    /\ DOMAIN host = DOMAIN tool_runner_registry
    /\ \A n \in DOMAIN host : host[n].handler = tool_runner_registry[n]

C6_Witness ==
    /\ pc = "mount"
    /\ idx = Len(specs)
    /\ DOMAIN host # {}

\* C8 as claimed: an adapter given a validated spec with a descriptor-specific problem
\* logs a reason and returns absent instead of raising, and the tool stays out of the
\* catalog.
C8_Original ==
    \A i \in 1..Len(specs) :
        (Valid(i) /\ HasMountProblem(i)) =>
            /\ MountOf(i).out = "absent"
            /\ Len(MountOf(i).logs) = 1
            /\ ~MountedFrom(specs[i].path)

\* C9 as claimed: a discovered file that does not become a catalog entry gets exactly
\* one log line, with the fixed prefix and a tool or path identity, unless it is blank
\* (no line); a spec that is mounted gets none.
C9_Original ==
    [][ /\ (pc = "parse" /\ idx <= Len(paths) /\ idx' = idx + 1) =>
              IF specs' # specs THEN log' = log
              ELSE IF tree[paths[idx]].kind = "blank" THEN log' = log
              ELSE Len(log') = Len(log) + 1
        /\ (pc = "mount" /\ idx <= Len(specs) /\ idx' = idx + 1) =>
              IF MountedFrom(specs[idx].path)' THEN log' = log
              ELSE Len(log') = Len(log) + 1
        /\ \A k \in 1..Len(log') :
              /\ log'[k].prefix = "[mcp-server]"
              /\ log'[k].name # <<>> \/ log'[k].path # <<>>
      ]_vars

(***************************************************************************)
(* Properties of calls                                                     *)
(***************************************************************************)
\* C7: call_tool(name, input) on a name that is no catalog key fails with an
\* 'unknown tool' error and starts no runner; on a catalog key it starts exactly
\* that name's stored runner once, with the input as given, and hands the runner's
\* own result back unchanged.
C7_DispatcherCallsStoredRunner ==
    [][ lastEvent'.via = "nested" =>
          IF lastEvent'.name \notin DOMAIN tool_runner_registry
          THEN /\ lastEvent'.op = "raise"
               /\ lastEvent'.result =
                     Result("error", NoRunner, lastEvent'.input, "unknown tool")
               /\ lastEvent'.invoked = NoRunner
               /\ calls' = calls
          ELSE IF lastEvent'.op = "call"
          THEN \E c \in Callers :
                  calls' = Push(c, Frame(lastEvent'.name,
                                         tool_runner_registry[lastEvent'.name],
                                         lastEvent'.input))
          ELSE \E c \in Callers :
                  /\ Len(calls[c]) > 1
                  /\ calls' = Pop(c)
                  /\ Top(c) = Frame(lastEvent'.name,
                                    tool_runner_registry[lastEvent'.name],
                                    lastEvent'.input)
                  /\ lastEvent'.result \in Outcomes(Top(c))
      ]_vars

C7_Witness ==
    /\ lastEvent.via = "nested"
    /\ lastEvent.op = "return"
    /\ lastEvent.result.t = "ok"
    /\ \E c \in Callers : calls[c] # <<>>

\* C10: once the pass is over no step of any call, by the host or nested, ending well
\* or in an error, in any interleaving, changes the catalog, the host's registrations
\* or published_name_to_path.
C10_CallsLeaveCatalogAlone ==
    [][ pc = "done" =>
          /\ tool_runner_registry' = tool_runner_registry
          /\ published_name_to_path' = published_name_to_path
          /\ host' = host
      ]_vars

C10_Witness ==
    /\ pc = "done"
    /\ \A c \in Callers : calls[c] # <<>>
    /\ lastEvent.op = "raise"

(***************************************************************************)
(* Properties of discovery                                                 *)
(***************************************************************************)
\* The spec files of the directory that the flag lets through, by resolved path
ExpectedPaths ==
    { e.real : e \in { x \in entries :
                          /\ x.path[Len(x.path)] \in {"TOOL.yaml", "TOOL.yml"}
                          /\ templates_flag \/ "templates" \notin SeqToSet(x.real) } }

\* C11: iter_tool_spec_paths returns every entry named TOOL.yaml or TOOL.yml beneath
\* the root exactly once, by resolved path in strictly ascending path order whatever
\* the order of enumeration; without include_templates exactly the resolved paths
\* that have no `templates` segment, with it all of them.
C11_PathsSortedComplete ==
    pc = "listed" =>
        /\ SeqToSet(paths) = ExpectedPaths
        /\ \A i, j \in 1..Len(paths) : i < j => PathLess(paths[i], paths[j])

C11_Witness ==
    /\ pc = "listed"
    /\ ~templates_flag
    /\ Len(paths) = 3
    /\ Cardinality(rglob(entries, "TOOL.yaml") \cup rglob(entries, "TOOL.yml")) = 6
    /\ \E e \in entries : e.real # e.path /\ e.real = paths[1]

(***************************************************************************)
(* Properties of validation                                                *)
(***************************************************************************)
\* The field is missing, null, a value Python counts as empty, or blank once trimmed
MissingOrBlank(rec, field) ==
    \/ field \notin DOMAIN rec
    \/ ~Truthy(rec[field])
    \/ Strip(rec[field].s) = <<>>

\* C12: validate_tool_spec returns exactly one of: missing_name when the name is
\* missing or empty after trimming, whatever the type; else missing_type when the type
\* is missing or empty after trimming; else unsupported_type when the trimmed,
\* lower-cased type is none of cli, python, markdown, prompt; else a descriptor with
\* the trimmed name, the trimmed lower-cased type and a description that is the
\* given text or, by default, the empty string.
C12_ValidateOutcome ==
    verdict # NoVerdict =>
        IF MissingOrBlank(verdict.raw, "name")
        THEN ~verdict.ok /\ verdict.err = "missing_name"
        ELSE IF MissingOrBlank(verdict.raw, "type")
        THEN ~verdict.ok /\ verdict.err = "missing_type"
        ELSE IF Lower(Strip(verdict.raw["type"].s))
                    \notin {<<"c", "l", "i">>, <<"p", "y", "t", "h", "o", "n">>,
                             <<"m", "a", "r", "k", "d", "o", "w", "n">>,
                             <<"p", "r", "o", "m", "p", "t">>}
        THEN ~verdict.ok /\ verdict.err = "unsupported_type"
        ELSE /\ verdict.ok /\ verdict.err = "none"
             /\ verdict.spec["name"] = StrV(Strip(verdict.raw["name"].s))
             /\ verdict.spec["type"] = StrV(Lower(Strip(verdict.raw["type"].s)))
             /\ verdict.spec["description"] =
                    IF "description" \in DOMAIN verdict.raw
                          /\ Truthy(verdict.raw["description"])
                    THEN StrV(verdict.raw["description"].s)
                    ELSE StrV(<<>>)

C12_Witness ==
    /\ verdict.ok
    /\ verdict.raw["name"] = StrV(<<" ", "a", " ">>)
    /\ verdict.raw["type"] = StrV(<<" ", "C", "L", "I", " ">>)
    /\ "description" \notin DOMAIN verdict.raw

\* C13: the published name of a validated descriptor is its trimmed mcp_name when
\* its type is cli and mcp_name is present and non-empty after trimming, and its
\* trimmed name otherwise; for the other types mcp_name is ignored.
C13_PublishedName ==
    published # <<>> =>
        IF /\ verdict.spec["type"].s = <<"c", "l", "i">>
           /\ ~MissingOrBlank(verdict.spec, "mcp_name")
        THEN published = Strip(verdict.spec["mcp_name"].s)
        ELSE published = Strip(verdict.spec["name"].s)

C13_Witness ==
    /\ published = <<"a">>
    /\ verdict.spec["type"].s = <<"p", "y", "t", "h", "o", "n">>
    /\ ~MissingOrBlank(verdict.spec, "mcp_name")

\* Two records agree on a field: both lack it or both hold the same value
AgreeOn(r1, r2, field) ==
    /\ field \in DOMAIN r1 <=> field \in DOMAIN r2
    /\ field \in DOMAIN r1 => r1[field] = r2[field]

\* C14: any record that agrees with the validated one on name and type gets the same
\* outcome whatever its other fields hold; on acceptance every field other than name,
\* type and description is in the descriptor unchanged; and the call leaves the
\* record it was given as it was.
C14_OnlyNameAndTypeDecide ==
    [][ verdict' # verdict =>
          /\ \A other \in RawRecords :
                (AgreeOn(other, raw_record, "name") /\ AgreeOn(other, raw_record, "type"))
                    => /\ validate_tool_spec(other).ok = verdict'.ok
                       /\ validate_tool_spec(other).err = verdict'.err
          /\ verdict'.ok =>
                /\ DOMAIN verdict'.spec = DOMAIN raw_record \cup {"name", "type", "description"}
                /\ \A k \in DOMAIN raw_record \ {"name", "type", "description"} :
                      verdict'.spec[k] = raw_record[k]
          /\ raw_record' = raw_record
      ]_vars

C14_Witness ==
    /\ verdict.ok
    /\ {"command", "mcp_name"} \subseteq DOMAIN raw_record
    /\ raw_record["name"] # verdict.spec["name"]
    /\ raw_record["type"] # verdict.spec["type"]

(***************************************************************************)
(* Properties of the runners                                               *)
(***************************************************************************)
\* This step is one whole invocation of a runner of that kind
Called(kind) == ncalls' # ncalls /\ run'.runner.kind = kind

\* The words of the strings callers send, by the shell's rules
ShellWords(chars) ==
    CASE chars = <<"a", " ", "b">>                -> << <<"a">>, <<"b">> >>
      [] chars = <<" ", "a", " ", " ", "b", " ">> -> << <<"a">>, <<"b">> >>
      [] chars = <<"'", "a", " ", "b", "'">>      -> << <<"a", " ", "b">> >>
      [] OTHER                                    -> <<>>

\* The argv the cli runner of `command` spawns for a structured input
ArgvFor(command, input) == _run_cli(command, cli_tool_runner(input), NoProc, NoCache).argv

\* C15 as claimed: absent input, the string "a b" and {"args": ["a", "b"]} all spawn
\* the process with the arguments ["a", "b"], and a string input spawns the argv of
\* the structured input whose args is its list of shell words.
C15_Original ==
    [][ (Called("cli") /\ run'.spawned) =>
          /\ run'.asked \in { NoInput, Input("str", <<"a", " ", "b">>, EmptyDict),
                               Dict([args |-> PList(<< <<"a">>, <<"b">> >>)]) }
                => Tail(run'.argv) = << <<"a">>, <<"b">> >>
          /\ run'.input.t = "str"
                => run'.argv = ArgvFor(run'.runner.cap,
                                       Dict([args |-> PList(ShellWords(run'.input.s))]))
      ]_vars

\* C15 (amended): the string "a b" and {"args": ["a", "b"]} both spawn the process
\* with the arguments ["a", "b"]; absent input spawns the command with no arguments;
\* and a string input spawns the argv of the structured input whose args is its list
\* of shell words.
C15_StringSplitsLikeArgs ==
    [][ (Called("cli") /\ run'.spawned) =>
          /\ run'.asked \in { Input("str", <<"a", " ", "b">>, EmptyDict),
                               Dict([args |-> PList(<< <<"a">>, <<"b">> >>)]) }
                => run'.argv = << run'.runner.cap, <<"a">>, <<"b">> >>
          /\ run'.asked = NoInput => run'.argv = << run'.runner.cap >>
          /\ run'.input.t = "str"
                => run'.argv = ArgvFor(run'.runner.cap,
                                       Dict([args |-> PList(ShellWords(run'.input.s))]))
      ]_vars

C15_Witness ==
    /\ run.spawned
    /\ run.asked = Input("str", <<"'", "a", " ", "b", "'">>, EmptyDict)
    /\ run.argv = << <<"c">>, <<"a", " ", "b">> >>

\* `short` is `full` without its trailing whitespace
WithoutTrailingSpace(short, full) ==
    /\ Len(short) <= Len(full)
    /\ SubSeq(full, 1, Len(short)) = short
    /\ \A i \in (Len(short) + 1)..Len(full) : full[i] \in {" ", "\n", "\t"}
    /\ short # <<>> => short[Len(short)] \notin {" ", "\n", "\t"}

\* C16: when the spawned command exits with code n # 0 the runner returns (it does
\* not raise) stdout, stderr and exit_code n, the texts without their trailing
\* whitespace, and logs exactly one diagnostic line; with exit code 0 it returns the
\* same shape and logs nothing.
C16_ExitCodeReturned ==
    [][ (Called("cli") /\ run'.spawned) =>
          /\ run'.out = "return"
          /\ run'.result.shape = "cli"
          /\ run'.result.exit_code = run'.proc.returncode
          /\ WithoutTrailingSpace(run'.result.stdout, run'.proc.stdout)
          /\ WithoutTrailingSpace(run'.result.stderr, run'.proc.stderr)
          /\ IF run'.proc.returncode # 0
             THEN /\ Len(log') = Len(log) + 1
                  /\ SubSeq(log', 1, Len(log)) = log
                  /\ log'[Len(log')].tag = "process failed"
             ELSE log' = log
      ]_vars

C16_Witness ==
    /\ run.spawned
    /\ run.proc.returncode = 2
    /\ run.proc.stdout = <<" ", "o", " ", "\n">>
    /\ run.result.stdout = <<" ", "o">>
    /\ Len(log) = 1

\* An input the command runner must refuse
BadCliInput(input) ==
    \/ input.t = "other"
    \/ /\ input.t = "dict"
       /\ \/ "args" \in DOMAIN input.d /\ input.d["args"].t # "list"
          \/ "stdin" \in DOMAIN input.d /\ input.d["stdin"].t # "str"
          \/ "cwd" \in DOMAIN input.d /\ input.d["cwd"].t # "str"

\* C17: a command tool is mounted before any input exists; a call with an input that
\* is neither absent, a string nor a mapping, with args that is no list of strings,
\* or with a stdin or cwd that is no string fails with a descriptive error before a
\* process is spawned, and the tool stays in the catalog and with the host, where
\* it can be called again.
C17_BadInputFailsAtCallTime ==
    /\ [] ( (run.runner.kind = "cli" /\ run.out = "raise" /\ ncalls < MaxCalls)
               => ENABLED Invoke("host", run.name,
                                 Dict([args |-> PList(<< <<"a">>, <<"b">> >>)])) )
    /\ [][ /\ (pc' = "done" /\ \E tool_path \in DOMAIN tree :
                                     tree[tool_path].rec["type"].s = <<"c", "l", "i">>)
                 => \E n \in DOMAIN tool_runner_registry' :
                       tool_runner_registry'[n].kind = "cli"
           /\ (Called("cli") /\ BadCliInput(run'.input)) =>
                 /\ run'.out = "raise"
                 /\ run'.error \in { "input must be an object or string when provided",
                                      "input.args must be a list of strings when provided",
                                      "input.stdin must be a string when provided",
                                      "input.cwd must be a string when provided" }
                 /\ ~run'.spawned /\ run'.argv = <<>>
                 /\ log' = log
                 /\ run'.name \in DOMAIN tool_runner_registry'
                 /\ tool_runner_registry' = tool_runner_registry
                 /\ host' = host
         ]_vars

C17_Witness ==
    /\ run.runner.kind = "cli"
    /\ run.out = "raise"
    /\ run.input = Dict([args |-> PList(<< <<"a">> >>), cwd |-> PInt(<<"5">>)])
    /\ run.name \in DOMAIN tool_runner_registry

\* C18: the script runner hands its entry point an empty mapping for absent input,
\* the mapping itself for a mapping and {"input": s} for a string s, and fails
\* without loading or running the script for any other input; it returns the entry
\* point's value as it is when that is a mapping and {"result": value} otherwise.
C18_ScriptPayloadAndResult ==
    [][ Called("python") =>
          IF run'.input.t \notin {"none", "str", "dict"}
          THEN /\ run'.out = "raise"
               /\ run'.error = "input must be an object or string when provided"
               /\ run'.invoked = 0 /\ ~run'.read /\ run'.loaded = <<>>
          ELSE /\ run'.invoked = 1 =>
                    run'.passed =
                        CASE run'.input.t = "none" -> Dict(EmptyDict)
                          [] run'.input.t = "dict" -> run'.input
                          [] run'.input.t = "str"  -> Dict([input |-> PStr(run'.input.s)])
               /\ run'.out = "return" =>
                    /\ run'.invoked = 1
                    /\ run'.result.value = run'.value
                    /\ run'.result.shape =
                          IF run'.value.t = "dict" THEN "value" ELSE "wrapped"
      ]_vars

C18_Witness ==
    /\ run.runner.kind = "python"
    /\ run.out = "return"
    /\ run.input.t = "str"
    /\ run.passed = Dict([input |-> PStr(run.input.s)])
    /\ run.result.shape = "wrapped"

\* C19 as claimed: every call of a script tool reads the source file anew and runs what
\* the file holds at that moment, invoking its entry point exactly once, whatever
\* calls and edits came before.
C19_Original ==
    [][ (Called("python") /\ run'.input.t \in {"none", "str", "dict"}
            /\ tree[run'.runner.path].src = "file") =>
          /\ run'.read
          /\ run'.loaded = tree[run'.runner.path].text
          /\ run'.invoked = IF tree[run'.runner.path].text = <<"v3">> THEN 0 ELSE 1
      ]_vars

\* C20: a static-file-text tool's prompt body is what its source file held when the
\* tool was mounted; no call reads the file, and every call returns that body, also
\* after the file was modified or deleted.
C20_TextFixedAtMount ==
    [][ /\ \A n \in DOMAIN tool_runner_registry' \ DOMAIN tool_runner_registry :
              tool_runner_registry'[n].kind = "markdown"
                  => tool_runner_registry'[n].cap = tree[tool_runner_registry'[n].path].text
        /\ \A n \in DOMAIN tool_runner_registry :
              /\ n \in DOMAIN tool_runner_registry'
              /\ tool_runner_registry'[n].cap = tool_runner_registry[n].cap
        /\ Called("markdown") =>
              /\ ~run'.read
              /\ run'.out = "return"
              /\ run'.result.shape = "text"
              /\ run'.result.body = tool_runner_registry[run'.name].cap
      ]_vars

C20_Witness ==
    /\ run.runner.kind = "markdown"
    /\ run.out = "return"
    /\ run.result.body = <<"v1">>
    /\ tree[run.runner.path].src = "missing"
    /\ ncalls > 1

(***************************************************************************)
(* Properties of the static-text runners                                   *)
(***************************************************************************)
EndsWith(text, suffix) ==
    /\ Len(text) >= Len(suffix)
    /\ SubSeq(text, Len(text) - Len(suffix) + 1, Len(text)) = suffix

\* json.loads, as a consumer of the text applies it to the suffix
Digits == {"0", "1", "2", "3", "4", "5", "6", "7", "8", "9"}

Parsed(ok, value, rest) == [ok |-> ok, value |-> value, rest |-> rest]
NoParse == Parsed(FALSE, PNone, <<>>)

\* The characters of a string up to its closing quote, escapes undone
RECURSIVE ScanString(_, _)
ScanString(s, acc) ==
    IF s = <<>> THEN NoParse
    ELSE IF Head(s) = "\"" THEN Parsed(TRUE, PStr(acc), Tail(s))
    ELSE IF Head(s) = "\\"
    THEN IF Len(s) < 2 THEN NoParse
         ELSE IF s[2] = "\"" THEN ScanString(SubSeq(s, 3, Len(s)), Append(acc, "\""))
         ELSE IF s[2] = "\\" THEN ScanString(SubSeq(s, 3, Len(s)), Append(acc, "\\"))
         ELSE IF s[2] = "n" THEN ScanString(SubSeq(s, 3, Len(s)), Append(acc, "\n"))
         ELSE IF s[2] = "t" THEN ScanString(SubSeq(s, 3, Len(s)), Append(acc, "\t"))
         ELSE IF s[2] = "u" /\ Len(s) >= 6 /\ SubSeq(s, 3, 6) = <<"0", "0", "e", "9">>
         THEN ScanString(SubSeq(s, 7, Len(s)), Append(acc, "U+00E9"))
         ELSE NoParse
    ELSE IF Head(s) \in {"\n", "\t"} THEN NoParse
    ELSE ScanString(Tail(s), Append(acc, Head(s)))

RECURSIVE ScanDigits(_, _)
ScanDigits(s, acc) ==
    IF s # <<>> /\ Head(s) \in Digits THEN ScanDigits(Tail(s), Append(acc, Head(s)))
    ELSE IF acc = <<>> THEN NoParse
    ELSE Parsed(TRUE, PInt(acc), s)

\* A string or a number
ScanScalar(s) ==
    IF s = <<>> THEN NoParse
    ELSE IF Head(s) = "\"" THEN ScanString(Tail(s), <<>>)
    ELSE ScanDigits(s, <<>>)

\* The items of a list after its "[": strings are kept, anything else marks the list
RECURSIVE ScanItems(_, _, _, _)
ScanItems(s, words, mixed, first) ==
    IF s = <<>> THEN NoParse
    ELSE IF first /\ Head(s) = "]"
    THEN Parsed(TRUE, IF mixed THEN PMixedList(words) ELSE PList(words), Tail(s))
    ELSE LET item == ScanScalar(s)
             more == IF item.value.t = "str" THEN Append(words, item.value.s) ELSE words
             mix  == mixed \/ item.value.t # "str"
         IN  IF ~item.ok \/ item.rest = <<>> THEN NoParse
             ELSE IF Head(item.rest) = "]"
             THEN Parsed(TRUE, IF mix THEN PMixedList(more) ELSE PList(more), Tail(item.rest))
             ELSE IF Len(item.rest) >= 2 /\ SubSeq(item.rest, 1, 2) = <<",", " ">>
             THEN ScanItems(SubSeq(item.rest, 3, Len(item.rest)), more, mix, FALSE)
             ELSE NoParse

ScanValue(s) ==
    IF s = <<>> THEN NoParse
    ELSE IF Head(s) = "[" THEN ScanItems(Tail(s), <<>>, FALSE, TRUE)
    ELSE ScanScalar(s)

\* The members of a mapping after its "{"
RECURSIVE ScanMembers(_, _, _)
ScanMembers(s, d, first) ==
    IF s = <<>> THEN [ok |-> FALSE, d |-> EmptyDict, rest |-> <<>>]
    ELSE IF first /\ Head(s) = "}" THEN [ok |-> TRUE, d |-> d, rest |-> Tail(s)]
    ELSE IF Len(s) < 5 \/ s[1] # "\"" \/ SubSeq(s, 3, 5) # <<"\"", ":", " ">>
    THEN [ok |-> FALSE, d |-> EmptyDict, rest |-> <<>>]
    ELSE LET v == ScanValue(SubSeq(s, 6, Len(s)))
         IN  IF ~v.ok \/ v.rest = <<>> THEN [ok |-> FALSE, d |-> EmptyDict, rest |-> <<>>]
             ELSE IF Head(v.rest) = "}"
             THEN [ok |-> TRUE, d |-> Put(d, s[2], v.value), rest |-> Tail(v.rest)]
             ELSE IF Len(v.rest) >= 2 /\ SubSeq(v.rest, 1, 2) = <<",", " ">>
             THEN ScanMembers(SubSeq(v.rest, 3, Len(v.rest)), Put(d, s[2], v.value), FALSE)
             ELSE [ok |-> FALSE, d |-> EmptyDict, rest |-> <<>>]

\* json.loads(text): the value, when the whole text is one value
json_loads(text) ==
    IF text = <<>> THEN [ok |-> FALSE, value |-> NoInput]
    ELSE IF Head(text) = "{"
    THEN LET m == ScanMembers(Tail(text), EmptyDict, TRUE)
         IN  IF m.ok /\ m.rest = <<>> THEN [ok |-> TRUE, value |-> Dict(m.d)]
             ELSE [ok |-> FALSE, value |-> NoInput]
    ELSE LET v == ScanScalar(text)
         IN  IF v.ok /\ v.rest = <<>>
             THEN [ok |-> TRUE,
                   value |-> IF v.value.t = "str" THEN Input("str", v.value.s, EmptyDict)
                             ELSE Input("other", v.value.s, EmptyDict)]
             ELSE [ok |-> FALSE, value |-> NoInput]

\* What json.dumps(I, ensure_ascii=True) prints for mappings callers send
CanonicalJson(input) ==
    CASE input = Dict(EmptyDict) -> <<"{", "}">>
      [] input = Dict([args |-> PList(<< <<"a">>, <<"b">> >>)]) ->
            <<"{", "\"", "args", "\"", ":", " ", "[", "\"", "a", "\"", ",", " ",
              "\"", "b", "\"", "]", "}">>
      [] input = Dict([stdin |-> PStr(<<"a", "\"", "\\", "\n", "U+00E9", ",", " ">>)]) ->
            <<"{", "\"", "stdin", "\"", ":", " ", "\"", "a", "\\", "\"", "\\", "\\",
              "\\", "n", "\\", "u", "0", "0", "e", "9", ",", " ", "\"", "}">>
      [] OTHER -> json_dumps(input)

TextKinds == {"markdown", "prompt"}

\* C21: for every mapping input I, a call of a static-file-text or static-inline-text
\* tool returns a result whose input field is I, and whose text ends with the marker
\* "input: " followed by the JSON serialization of I; parsing that suffix gives I.
C21_RoundTrip ==
    [][ \A kind \in TextKinds :
           Called(kind) /\ run'.asked.t = "dict" =>
              LET I == run'.asked
                  text == run'.result.text
                  j == CanonicalJson(I)
              IN  /\ run'.out = "return"
                  /\ run'.result.input = I
                  /\ DOMAIN run'.result.input.d = DOMAIN I.d
                  /\ EndsWith(text, InputMarker \o j)
                  /\ json_loads(SubSeq(text, Len(text) - Len(j) + 1, Len(text)))
                        = [ok |-> TRUE, value |-> I]
      ]_vars

C21_Witness ==
    /\ run.runner.kind = "prompt"
    /\ run.out = "return"
    /\ run.asked = Dict([stdin |-> PStr(<<"a", "\"", "\\", "\n", "U+00E9", ",", " ">>)])
    /\ run.result.input = run.asked

\* C22: for every input, a static-text tool's result has exactly the keys text, input
\* and type; type is "markdown" for the file variant and "prompt" for the inline one;
\* absent input is an empty mapping in the result; text is the fixed hint, the prompt
\* body, the separator and the serialized input of the result, in that order.
C22_TextResultShape ==
    [][ \A kind \in TextKinds :
           Called(kind) =>
              LET file == tree[run'.runner.path]
                  body == IF file.src = "none" THEN file.rec["source"].s
                          ELSE tool_runner_registry[run'.name].cap
              IN  /\ run'.out = "return"
                  /\ run'.result.keys = {"text", "input", "type"}
                  /\ "exit_code" \notin run'.result.keys
                  /\ run'.result.type = IF file.src = "none" THEN "prompt" ELSE "markdown"
                  /\ run'.asked.t = "none" => run'.result.input = Dict(EmptyDict)
                  /\ run'.asked.t = "dict" => run'.result.input = run'.asked
                  /\ run'.result.text =
                        <<PROMPT_TOOL_RESPONSE_HINT>> \o <<"\n", "\n">> \o body
                           \o <<"\n", "\n", "-", "-", "-", "\n">>
                           \o <<"i", "n", "p", "u", "t", ":", " ">>
                           \o CanonicalJson(run'.result.input)
      ]_vars

C22_Witness ==
    /\ run.runner.kind = "markdown"
    /\ run.via = "nested"
    /\ run.asked = NoInput
    /\ run.out = "return"
    /\ run.result.input = Dict(EmptyDict)
    /\ run.result.type = "markdown"

(***************************************************************************)
(* Properties of nested calls                                              *)
(***************************************************************************)
\* The names of the frames a caller has open
InFlight(c) == {calls[c][i].name : i \in 1..Len(calls[c])}

Dispatched ==
    /\ lastEvent'.via = "nested"
    /\ <<calls, lastEvent>>' # <<calls, lastEvent>>
    /\ \A c \in Callers : Len(calls'[c]) >= Len(calls[c])

\* C28: call_tool resolves the name in the catalog as it is when the call is made.
\* Calls happen only after the pass; from then on a running script can call every key
\* of the final catalog, also one whose spec was mounted after the script's own, and
\* the call starts that key's runner; a name the catalog does not hold (its spec was
\* skipped) is refused as unknown at every call.
C28_ResolvedAtCallTime ==
    /\ [](\A c \in Callers :
             /\ pc = "done"
             /\ calls[c] # <<>>
             /\ Top(c).runner.kind = "python"
             /\ Top(c).input.t # "other"
             /\ SumFrames(Callers) < MaxFrames
             => \A n \in DOMAIN tool_runner_registry : ENABLED NestedCall(c, n, NoInput))
    /\ [][ Dispatched =>
             /\ pc = "done"
             /\ tool_runner_registry' = tool_runner_registry
             /\ IF lastEvent'.name \in DOMAIN tool_runner_registry
                THEN /\ lastEvent'.op = "call"
                     /\ \E c \in Callers :
                           calls'[c] = Append(calls[c],
                                              Frame(lastEvent'.name,
                                                    tool_runner_registry[lastEvent'.name],
                                                    lastEvent'.input))
                ELSE /\ lastEvent'.op = "raise"
                     /\ lastEvent'.result.extra = "unknown tool"
                     /\ calls' = calls
         ]_vars

C28_Witness ==
    /\ lastEvent.op = "call"
    /\ lastEvent.via = "nested"
    /\ \E c \in Callers :
          /\ Len(calls[c]) = 2
          /\ PathLess(calls[c][1].runner.path, calls[c][2].runner.path)
          /\ calls[c][2].runner = tool_runner_registry[lastEvent.name]

(***************************************************************************)
(* Properties of the finished pass                                         *)
(***************************************************************************)
ValidSpecs == {i \in 1..Len(specs) : Valid(i)}

C26_ClaimedBeforeAdapter ==
    /\ [](pc = "done" =>
            \A i, j \in 1..Len(specs) :
               (SameNamePair(i, j) /\ FirstClaimant(i) /\ MountOf(i).out = "absent") =>
                  /\ published_name_to_path[PublishedOf(i)] = specs[i].path
                  /\ ~MountedFrom(specs[j].path)
                  /\ CountLines(Line("skipped: duplicate published name", PublishedOf(j),
                                     specs[j].path, specs[i].path)) = 1
                  /\ PublishedOf(i) \notin DOMAIN tool_runner_registry)
    /\ [][ /\ \A n \in DOMAIN published_name_to_path :
                 /\ n \in DOMAIN published_name_to_path'
                 /\ published_name_to_path'[n] = published_name_to_path[n]
           /\ ( /\ pc = "mount" /\ idx <= Len(specs)
                /\ <<pc, idx>>' # <<pc, idx>>
                /\ Valid(idx)
                /\ PublishedOf(idx) \notin DOMAIN published_name_to_path )
                 => published_name_to_path' =
                       Put(published_name_to_path, PublishedOf(idx), specs[idx].path)
         ]_vars

C26_Witness ==
    /\ pc = "done"
    /\ \E i, j \in 1..Len(specs) :
          /\ SameNamePair(i, j)
          /\ FirstClaimant(i)
          /\ MountOf(i).out = "absent"
          /\ MountOf(j).out = "tool"
          /\ PublishedOf(i) \in DOMAIN published_name_to_path
          /\ tool_runner_registry = EmptyDict

\* The keys of a tool's metadata (None has none)
MetaKeys(meta) == IF meta = "None" THEN {} ELSE {meta}

\* C25 as stated: what the host holds for a mounted tool is the tool's own metadata
\* merged with the global usage hints, the hints under keys of their own: every key
\* of the tool's metadata is there, and so is at least one key that is not the tool's.
C25_Original ==
    pc = "done" =>
        \A i \in 1..Len(specs) :
            MountedFrom(specs[i].path) =>
                \E n \in DOMAIN host :
                    /\ host[n].handler.path = specs[i].path
                    /\ MetaKeys(MountOf(i).tool.meta) \subseteq MetaKeys(host[n].meta)
                    /\ MetaKeys(host[n].meta) \ MetaKeys(MountOf(i).tool.meta) # {}

(***************************************************************************)
(* Properties relating the two ways to call a tool                          *)
(***************************************************************************)
\* The inputs a caller may send: nothing, a string or a mapping
CallerInputs == {input \in RunInputs : input.t \in {"none", "str", "dict"}}

\* Every way a call of `name` through the handler registered with the host can end
ViaHost(name, input) ==
    RunOutcomes(host[name].handler, HandlerPayload(input),
                tree[host[name].handler.path], CacheOf(host[name].handler.path))

\* Every way a call of `name` through call_tool can end
ViaCallTool(name, input) ==
    LET r == _call_tool(tool_runner_registry, name, input)
    IN  RunOutcomes(r.runner, r.passed, tree[r.runner.path], CacheOf(r.runner.path))

\* How the call just made ended, in the shape of an outcome
Ended(r, cache) ==
    Outcome(r.out, r.error, r.passed, r.spawned, r.argv, r.proc, r.read, r.loaded,
            r.invoked, r.value, r.result, r.logged, cache)

\* C27: for every catalog name and every input that is absent, a string or a mapping,
\* every call made through the host's handler ended in a way (the same result, or the
\* same error) in which the call through call_tool can end in that state, and every
\* call made through call_tool in a way in which the call through the handler can end.
C27_HostAndNestedAgree ==
    [][ (ncalls' # ncalls /\ run'.asked \in CallerInputs) =>
           LET o == Ended(run', IF run'.runner.path \in DOMAIN pycache'
                                THEN pycache'[run'.runner.path] ELSE NoCache)
           IN  IF run'.via = "host" THEN o \in ViaCallTool(run'.name, run'.asked)
               ELSE o \in ViaHost(run'.name, run'.asked)
      ]_vars

C27_Witness ==
    /\ run.via = "host"
    /\ run.asked = NoInput
    /\ run.input = Dict(EmptyDict)
    /\ run.runner.kind = "python"
    /\ run.out = "return"
    /\ ncalls = 2

(***************************************************************************)
(* Properties of the pass with the runners in full                         *)
(***************************************************************************)
\* C29: the pass executes no tool.  Until it has ended no runner was invoked, no
\* process spawned, no script module loaded (the bytecode cache is empty), the
\* dispatcher was not called and no call is open; and what a step of the pass does
\* with a script or command spec does not depend on what the source file holds, only
\* on whether it exists: the file is not opened.
C29_PassRunsNoTool ==
    /\ [](pc # "done" =>
            /\ run = NoRun
            /\ ncalls = 0
            /\ pycache = EmptyDict
            /\ lastEvent = NoEvent
            /\ \A c \in Callers : calls[c] = <<>>)
    /\ [][ ( /\ pc = "mount" /\ idx <= Len(specs)
             /\ <<pc, idx>>' # <<pc, idx>>
             /\ Valid(idx)
             /\ SpecOf(idx)["type"].s \in {T_cli, T_python} )
              => /\ \A body \in Bodies :
                       MountStep(specs[idx].path, specs[idx].raw,
                                 [tree[specs[idx].path] EXCEPT !.text = body],
                                 published_name_to_path, tool_runner_registry, host)
                          = MountStep(specs[idx].path, specs[idx].raw, tree[specs[idx].path],
                                      published_name_to_path, tool_runner_registry, host)
                 /\ run' = NoRun
                 /\ pycache' = EmptyDict
         ]_vars

C29_Witness ==
    /\ pc = "done"
    /\ ncalls = 0
    /\ run = NoRun
    /\ pycache = EmptyDict
    /\ \E n \in DOMAIN tool_runner_registry :
          /\ tool_runner_registry[n].kind = "python"
          /\ tree[tool_runner_registry[n].path].text = <<"v3">>

\* C30 as stated: a script spec whose source file exists when its step of the pass
\* runs is mounted whatever the file holds; and whenever the file has no run entry
\* point, or is gone, at the time of a call, the tool is in the catalog, the call
\* ends in an error for its caller, and the catalog is left as it was.
C30_Original ==
    [][ /\ ( /\ pc = "mount" /\ idx <= Len(specs)
             /\ <<pc, idx>>' # <<pc, idx>>
             /\ Valid(idx)
             /\ SpecOf(idx)["type"].s = T_python
             /\ UsableSource(Get(SpecOf(idx), "source"))
             /\ tree[specs[idx].path].src = "file" )
              => \E n \in DOMAIN tool_runner_registry' :
                    tool_runner_registry'[n] =
                       Runner("python", specs[idx].path,
                              SourcePath(specs[idx].path, Get(SpecOf(idx), "source")))
        /\ ( /\ Called("python")
             /\ run'.asked.t # "other"
             /\ \/ tree[run'.runner.path].src = "missing"
                \/ tree[run'.runner.path].text = <<"v3">> )
              => /\ run'.name \in DOMAIN tool_runner_registry
                 /\ run'.out = "raise"
                 /\ tool_runner_registry' = tool_runner_registry
                 /\ host' = host
      ]_vars

====
